---- MODULE Spec2Model ----
(***************************************************************************)
(* State-machine model of the ZeroMQ LiDAR streaming pair:                 *)
(*   src/zmq_send/LidarSender.py      (fragmenter, pending-ack map,        *)
(*                                     ack listener thread)                *)
(*   src/zmq_receive/LidarReceiver.py (reassembly engine, dual triggers,   *)
(*                                     overflow protection, acks)          *)
(* and of the sequence detector and the aggregate feedback path of the     *)
(* GStreamer pair:                                                         *)
(*   src/main_receive.py   (on_packet_received: duplicates, gaps)          *)
(*   src/rtt_tracker.py    (FeedbackSender, RTTTracker listener thread)    *)
(*                                                                         *)
(* reassembly_buffer and sent_timestamps are Python dicts, which keep      *)
(* insertion order: each is a sequence of [k, v] records in insertion      *)
(* order, so that list(d.keys()) iterates the way the interpreter does.    *)
(* An entry's "chunks" dict is only read through len(), "in" and           *)
(* sorted(keys), none of which sees the insertion order: it is a function  *)
(* chunk_index -> bytes.  A float32 element is one atomic word; a chunk's  *)
(* bytes are the sequence of its words (ndarray.tobytes is row-major).     *)
(***************************************************************************)
EXTENDS Integers, Sequences, FiniteSets, TLC

\* ------------------------------------------------------------------ bounds
\* Frame ids the network may deliver to the receiver are 0..MaxFrameId.
MaxFrameId == 1
\* The largest total_chunks a delivered chunk may declare.
MaxChunks == 3
\* Frame ids of the many-frames scenario are 0..MaxLagFrame.
MaxLagFrame == 6
\* Rows of the largest point cloud handed to send_frame.
MaxRows == 4
\* Frames the feeder hands to send_frame.
MaxFrames == 2
\* Frames sent while the ack channel is adversarial.
MaxAckFrames == 1
\* Latest reading of time.monotonic() (in ticks).
MaxTime == 1
\* Ack messages the ack channel may hold at once.
MaxAcks == 1
\* LidarSender.POINTS_PER_CHUNK (500 in the source), scaled down so that a
\* frame of MaxRows rows still splits into several chunks.
POINTS_PER_CHUNK == 2
\* Sequence numbers GStreamer may hand to on_packet_received are 0..MaxSeq.
MaxSeq == 4
\* The largest len(packed_data) of a delivered packet (in bytes).
MaxPacketSize == 2
\* Latest reading of time.time() (in seconds).
MaxWall == 1
\* Feedback datagrams in flight at once.
MaxDatagrams == 1
\* Calls of on_feedback after which nothing more is sent to the feedback port.
MaxCalls == 2
\* Packets main_send sends.
MaxSent == 2

\* The timeout of the two thread.join(timeout=1.0) calls, in steps of the
\* thread joined: one pass of either listener loop takes fewer steps.
JoinTimeout == 6

\* --------------------------------------------------------- program constants
MAX_FRAME_LAG == 5
\* rtt_tracker.MAGIC, 0x52544650
MAGIC == 1381254736
\* rtt_tracker.FEEDBACK_SIZE, struct.calcsize('!IdQQQ'): 4 + 8 + 8 + 8 + 8
FEEDBACK_SIZE == 36

VARIABLES
  \* LidarReceiver
  reassembly_buffer,        \* dict frame_id -> entry
  current_collecting_fid,
  last_processed_fid,
  r_pc,                     \* where the receiver is: in run()'s loop or closed
  \* LidarSender
  frame_id,
  sent_timestamps,          \* dict frame_id -> send_time
  rtt_records_ms,
  s_pc,                     \* where the pacing thread is inside send_frame
  s_call,                   \* locals of the send_frame call in progress
  l_pc,                     \* where the ack listener thread is in its loop
  l_ack,                    \* the listener's ack_frame_id
  l_send_time,              \* the listener's send_time
  \* transport and clock
  data_chan,                \* RADIO -> DISH: chunks sent, not yet received
  ack_chan,                 \* PUSH -> PULL: acks sent, not yet received
  now,                      \* time.monotonic()
  \* observation: what the program printed or handed over; never read by it
  rx_in,                    \* the message the receiver processed last
  rx_out,                   \* the frames finalized while processing it
  rx_trace,                 \* what the receiver did while processing it,
                            \* statement after statement
  emitted,                  \* frame ids finalized so far, in order
  rx_in_order,              \* so far the messages were non-terminal chunks
                            \* of frames 0, 1, 2, ... in that order
  tx_log,                   \* messages handed to send_socket.send by the
                            \* latest send_frame call
  tx_frames,                \* the payloads send_frame was called with
  tx_lost,                  \* frame ids of which a send raised
  rtt_log,                  \* [ACK thread] lines printed: frame id and RTT
  l_outcome,                \* what became of the listener's latest ack
  \* main_receive (module globals)
  last_seq,
  total_received,
  total_bytes,
  total_lost_frames,
  log_buffer,               \* logger.log_buffer: the rows logged
  \* RTTTracker
  latest_rtt,               \* None is <<>>, a value r is <<r>>
  receiver_last_seq,
  receiver_received,
  receiver_lost,
  running,
  t_pc,                     \* where the feedback listener thread is in _listen
  \* transport and clock
  fb_chan,                  \* UDP: feedback datagrams sent, not yet received
  wall,                     \* time.time()
  \* observation
  d_in,                     \* the packet on_packet_received handled last
  fb_sent,                  \* the datagrams send_feedback_now built so far
  t_in,                     \* what the listener's latest recvfrom returned
  fb_calls,                 \* the argument tuples on_feedback was called with
  \* shutdown
  c_pc,                     \* where the main thread is inside LidarSender.close
  c_wait,                   \* time spent in ack_thread.join so far
  k_pc,                     \* where the main thread is inside RTTTracker.stop
  k_wait,                   \* time spent in thread.join so far
  \* main_send (module globals) and GstSenderCore
  frame_count,              \* GstSenderCore.frame_count
  total_sent,
  sender_total_bytes,       \* main_send's total_bytes
  sender_lost_frames,       \* main_send's total_lost_frames
  latest_loss_rate,         \* percent, as the fraction [num, den]
  sent_packet_info,         \* dict sequence -> [timestamp, bytes]
  sender_log_buffer         \* main_send's logger.log_buffer

rvars == <<reassembly_buffer, current_collecting_fid, last_processed_fid,
           r_pc, rx_in, rx_out, rx_trace, emitted, rx_in_order>>
svars == <<frame_id, sent_timestamps, s_pc, s_call, tx_log, tx_frames, tx_lost>>
lvars == <<rtt_records_ms, l_pc, l_ack, l_send_time, rtt_log, l_outcome>>
dvars == <<last_seq, total_received, total_bytes, total_lost_frames, log_buffer,
           d_in, fb_sent>>
tvars == <<latest_rtt, receiver_last_seq, receiver_received, receiver_lost,
           running, t_pc, t_in, fb_calls>>
gvars == <<dvars, tvars, fb_chan, wall>>
jvars == <<c_pc, c_wait, k_pc, k_wait>>
pvars == <<frame_count, total_sent, sender_total_bytes, sender_lost_frames,
           latest_loss_rate, sent_packet_info, sender_log_buffer>>
vars == <<rvars, svars, lvars, data_chan, ack_chan, now, gvars, jvars, pvars>>

\* ------------------------------------------------------------ Python dicts
DictKeys(d) == [i \in 1..Len(d) |-> d[i].k]

KeySet(d) == {d[i].k : i \in 1..Len(d)}

DictHas(d, key) == \E i \in 1..Len(d) : d[i].k = key

DictGet(d, key) == d[CHOOSE i \in 1..Len(d) : d[i].k = key].v

DictSet(d, key, val) ==
  IF DictHas(d, key)
  THEN [i \in 1..Len(d) |-> IF d[i].k = key THEN [k |-> key, v |-> val] ELSE d[i]]
  ELSE Append(d, [k |-> key, v |-> val])

DictPop(d, key) == SelectSeq(d, LAMBDA e : e.k # key)

MaxOf(a, b) == IF a >= b THEN a ELSE b

MinOf(a, b) == IF a <= b THEN a ELSE b

\* Variant: sorted(keys, reverse=True).
RECURSIVE SortedDescending(_)
SortedDescending(S) ==
  IF S = {} THEN <<>>
  ELSE LET m == CHOOSE x \in S : \A y \in S : x >= y
       IN <<m>> \o SortedDescending(S \ {m})

\* sorted(keys): ascending
RECURSIVE Sorted(_)
Sorted(S) ==
  IF S = {} THEN <<>>
  ELSE LET m == CHOOSE x \in S : \A y \in S : x <= y
       IN <<m>> \o Sorted(S \ {m})

\* b"".join(list)
RECURSIVE Join(_)
Join(parts) == IF parts = <<>> THEN <<>> ELSE Head(parts) \o Join(Tail(parts))

\* np.frombuffer(bytes).reshape(-1, dim) raises unless the words divide
ReshapeOk(bytes, dim) == Len(bytes) % dim = 0

Reshape(bytes, dim) ==
  [r \in 1..(Len(bytes) \div dim) |-> SubSeq(bytes, (r - 1) * dim + 1, r * dim)]

\* ndarray.tobytes() of an (n, dim) array: row-major
RECURSIVE ToBytes(_)
ToBytes(rows) == IF rows = <<>> THEN <<>> ELSE Head(rows) \o ToBytes(Tail(rows))

\* ------------------------------------------------------------ the receiver
\* The receiver's state while one message is processed: the three fields of
\* LidarReceiver (buf, cur, last), the acks pushed (acks) and the frames
\* handed to the application (out).  ack_ok: whether ack_socket.send
\* succeeds while this message is processed; send_ack catches its failure.
\* trace lists the statements executed: pop, emit (process_frame_data), ack
\* or ack_failed (send_ack), mark (last_processed_fid), collect
\* (current_collecting_fid), store (the chunk or JSON payload put in the
\* buffer).
Did(st, op, fid) == [st EXCEPT !.trace = Append(@, [op |-> op, fid |-> fid])]

ProcessFrameData(fid, data) ==
  IF data.type = "json"
  THEN [frame_id |-> fid, type |-> "json", json_data |-> data.data]
  ELSE LET chunks == data.chunks
           received_chunks == Cardinality(DOMAIN chunks)
           order == Sorted(DOMAIN chunks)
           all_chunks_bytes == [i \in 1..Len(order) |-> chunks[order[i]]]
           full_data_bytes == Join(all_chunks_bytes)
           \* "if not all_chunks_bytes: return" comes before the reshape
           ok == (all_chunks_bytes # <<>>) /\ ReshapeOk(full_data_bytes, data.shape_dim)
       IN [frame_id |-> fid, type |-> "pcd",
           received_chunks |-> received_chunks,
           total_chunks |-> data.total,
           complete |-> ~(received_chunks < data.total),
           chunks |-> chunks,
           payload |-> full_data_bytes,
           reshaped |-> ok,
           final_array |-> IF ok THEN Reshape(full_data_bytes, data.shape_dim)
                           ELSE <<>>]

SendAck(st, fid) ==
  IF st.ack_ok THEN Did([st EXCEPT !.acks = Append(@, fid)], "ack", fid)
  ELSE Did(st, "ack_failed", fid)

\* Variant: the entry is read, self.reassembly_buffer[frame_id], not popped.
ProcessAndClearFrameNoPop(st, fid) ==
  IF DictHas(st.buf, fid)
  THEN LET frame_data == DictGet(st.buf, fid)
           s2 == Did([st EXCEPT !.out = Append(@, [ev |-> ProcessFrameData(fid, frame_data),
                                                   acked |-> st.ack_ok])], "emit", fid)
           s3 == SendAck(s2, fid)
       IN Did([s3 EXCEPT !.last = MaxOf(@, fid)], "mark", fid)
  ELSE st

\* Variant: an incomplete frame resets the mark instead of advancing it.
ProcessAndClearFrameRetry(st, fid) ==
  IF DictHas(st.buf, fid)
  THEN LET frame_data == DictGet(st.buf, fid)
           ev == ProcessFrameData(fid, frame_data)
           s1 == Did([st EXCEPT !.buf = DictPop(st.buf, fid)], "pop", fid)
           s2 == Did([s1 EXCEPT !.out = Append(@, [ev |-> ev, acked |-> st.ack_ok])],
                     "emit", fid)
           s3 == SendAck(s2, fid)
       IN Did([s3 EXCEPT !.last = IF ev.type = "pcd" /\ ~ev.complete THEN -1
                                    ELSE MaxOf(@, fid)], "mark", fid)
  ELSE st

\* Variant: the mark is advanced only when the ack went out.
ProcessAndClearFrameMarkOnAck(st, fid) ==
  IF DictHas(st.buf, fid)
  THEN LET frame_data == DictGet(st.buf, fid)
           s1 == Did([st EXCEPT !.buf = DictPop(st.buf, fid)], "pop", fid)
           s2 == Did([s1 EXCEPT !.out = Append(@, [ev |-> ProcessFrameData(fid, frame_data),
                                                   acked |-> st.ack_ok])], "emit", fid)
           s3 == SendAck(s2, fid)
       IN IF st.ack_ok THEN Did([s3 EXCEPT !.last = MaxOf(@, fid)], "mark", fid) ELSE s3
  ELSE st

\* Variant: process_frame_data without the try/except of lines 87-104; a
\* frame that cannot be reshaped gets no ack and no mark.
ProcessAndClearFrameReshapeFatal(st, fid) ==
  IF DictHas(st.buf, fid)
  THEN LET frame_data == DictGet(st.buf, fid)
           ev == ProcessFrameData(fid, frame_data)
           s1 == Did([st EXCEPT !.buf = DictPop(st.buf, fid)], "pop", fid)
           s2 == Did([s1 EXCEPT !.out = Append(@, [ev |-> ev, acked |-> st.ack_ok])],
                     "emit", fid)
           s3 == SendAck(s2, fid)
       IN IF (ev.type = "pcd") /\ (ev.payload # <<>>) /\ ~ev.reshaped
          THEN s2
          ELSE Did([s3 EXCEPT !.last = MaxOf(@, fid)], "mark", fid)
  ELSE st

\* Variant: without the "if frame_id in self.reassembly_buffer" test around
\* send_ack and the update of last_processed_fid.
ProcessAndClearFrameAckAbsent(st, fid) ==
  IF DictHas(st.buf, fid)
  THEN LET frame_data == DictGet(st.buf, fid)
           s1 == Did([st EXCEPT !.buf = DictPop(st.buf, fid)], "pop", fid)
           s2 == Did([s1 EXCEPT !.out = Append(@, [ev |-> ProcessFrameData(fid, frame_data),
                                                   acked |-> st.ack_ok])], "emit", fid)
           s3 == SendAck(s2, fid)
       IN Did([s3 EXCEPT !.last = MaxOf(@, fid)], "mark", fid)
  ELSE Did([SendAck(st, fid) EXCEPT !.last = MaxOf(@, fid)], "mark", fid)

ProcessAndClearFrame(st, fid) ==
  IF DictHas(st.buf, fid)
  THEN LET frame_data == DictGet(st.buf, fid)
           s1 == Did([st EXCEPT !.buf = DictPop(st.buf, fid)], "pop", fid)
           s2 == Did([s1 EXCEPT !.out = Append(@, [ev |-> ProcessFrameData(fid, frame_data),
                                                   acked |-> st.ack_ok])], "emit", fid)
           s3 == SendAck(s2, fid)
       IN Did([s3 EXCEPT !.last = MaxOf(@, fid)], "mark", fid)
  ELSE st

\* for fid in list(self.reassembly_buffer.keys()): if fid < frame_id: ...
RECURSIVE FlushOlder(_, _, _)
FlushOlder(st, keys, fid) ==
  IF keys = <<>> THEN st
  ELSE FlushOlder(IF Head(keys) < fid THEN ProcessAndClearFrame(st, Head(keys))
                  ELSE st,
                  Tail(keys), fid)

\* Variant: a newer frame only moves current_collecting_fid.
NextFrameTriggerNoFlush(st, fid) ==
  IF fid > st.cur THEN Did([st EXCEPT !.cur = fid], "collect", fid) ELSE st

NextFrameTrigger(st, fid) ==
  IF fid > st.cur
  THEN LET s1 == IF st.cur # -1 THEN ProcessAndClearFrame(st, st.cur) ELSE st
           s2 == FlushOlder(s1, DictKeys(s1.buf), fid)
       IN Did([s2 EXCEPT !.cur = fid], "collect", fid)
  ELSE st

\* Variant: chunks[chunk_index] = pcd_chunk_bytes without the "not in" test.
InsertChunkOverwrite(chunks, chunk_index, pcd_bytes) ==
  (chunk_index :> pcd_bytes) @@ chunks

InsertChunk(chunks, chunk_index, pcd_bytes) ==
  IF chunk_index \notin DOMAIN chunks
  THEN (chunk_index :> pcd_bytes) @@ chunks
  ELSE chunks

\* Variant: step 5 without the test "frame_id == self.current_collecting_fid".
StoreChunkAnyFrame(st, msg) ==
  IF msg.frag_info = <<>>
  THEN IF ~DictHas(st.buf, msg.frame_id)
       THEN Did([st EXCEPT !.buf = DictSet(@, msg.frame_id,
                                [type |-> "json", data |-> msg.json_data])],
                "store", msg.frame_id)
       ELSE st
  ELSE LET frag_info == msg.frag_info[1]
           b1 == IF ~DictHas(st.buf, msg.frame_id)
                 THEN DictSet(st.buf, msg.frame_id,
                        [type |-> "pcd", total |-> frag_info.total_chunks,
                         dtype |-> frag_info.dtype,
                         shape_dim |-> frag_info.shape[2],
                         chunks |-> <<>>])
                 ELSE st.buf
           entry == DictGet(b1, msg.frame_id)
       IN IF entry.type = "pcd"
          THEN Did([st EXCEPT !.buf = DictSet(b1, msg.frame_id,
                       [entry EXCEPT !.chunks =
                          InsertChunk(@, frag_info.chunk_index, msg.pcd_chunk_bytes)])],
                   "store", msg.frame_id)
          ELSE [st EXCEPT !.buf = b1]

StoreChunk(st, msg) ==
  IF msg.frame_id = st.cur
  THEN IF msg.frag_info = <<>>
       THEN IF ~DictHas(st.buf, msg.frame_id)
            THEN Did([st EXCEPT !.buf = DictSet(@, msg.frame_id,
                                     [type |-> "json", data |-> msg.json_data])],
                     "store", msg.frame_id)
            ELSE st
       ELSE LET frag_info == msg.frag_info[1]
                b1 == IF ~DictHas(st.buf, msg.frame_id)
                      THEN DictSet(st.buf, msg.frame_id,
                             [type |-> "pcd", total |-> frag_info.total_chunks,
                              dtype |-> frag_info.dtype,
                              shape_dim |-> frag_info.shape[2],
                              chunks |-> <<>>])
                      ELSE st.buf
                entry == DictGet(b1, msg.frame_id)
            IN IF entry.type = "pcd"
               THEN Did([st EXCEPT !.buf = DictSet(b1, msg.frame_id,
                            [entry EXCEPT !.chunks =
                               InsertChunk(@, frag_info.chunk_index, msg.pcd_chunk_bytes)])],
                        "store", msg.frame_id)
               ELSE [st EXCEPT !.buf = b1]
  ELSE st

\* Variant: the marker finalizes the frame only when all its chunks are there.
MarkerTriggerWhenComplete(st, msg) ==
  IF msg.marker /\ msg.frame_id = st.cur /\ DictHas(st.buf, msg.frame_id)
     /\ DictGet(st.buf, msg.frame_id).type = "pcd"
     /\ Cardinality(DOMAIN DictGet(st.buf, msg.frame_id).chunks)
          >= DictGet(st.buf, msg.frame_id).total
  THEN ProcessAndClearFrame(st, msg.frame_id)
  ELSE st

MarkerTrigger(st, msg) ==
  IF msg.marker /\ msg.frame_id = st.cur
  THEN ProcessAndClearFrame(st, msg.frame_id)
  ELSE st

FidToDrop(buf) == CHOOSE x \in KeySet(buf) : \A y \in KeySet(buf) : x <= y

\* while len(self.reassembly_buffer) > MAX_FRAME_LAG: ...  Every pass pops
\* one entry, so the loop makes at most len(reassembly_buffer) passes.
RECURSIVE OverflowLoop(_, _)
OverflowLoop(st, passes) ==
  IF Len(st.buf) > MAX_FRAME_LAG /\ passes > 0
  THEN OverflowLoop(ProcessAndClearFrame(st, FidToDrop(st.buf)), passes - 1)
  ELSE st

OverflowProtection(st) == OverflowLoop(st, Len(st.buf))

\* Variant: frame_id < self.last_processed_fid.
IsStaleStrict(st, msg) == msg.frame_id < st.last

IsStale(st, msg) == msg.frame_id <= st.last

\* Variant: step 5 (store) placed ahead of step 4 (next-frame trigger).
HandleMessageStoreFirst(st, msg) ==
  IF IsStale(st, msg) THEN st
  ELSE OverflowProtection(
         MarkerTrigger(NextFrameTrigger(StoreChunk(st, msg), msg.frame_id), msg))

\* One pass of run()'s loop body on a received, well-formed message.
HandleMessage(st, msg) ==
  IF IsStale(st, msg) THEN st
  ELSE OverflowProtection(
         MarkerTrigger(StoreChunk(NextFrameTrigger(st, msg.frame_id), msg), msg))

RxState(ack_ok) ==
  [buf |-> reassembly_buffer, cur |-> current_collecting_fid,
   last |-> last_processed_fid, acks |-> <<>>, out |-> <<>>, trace |-> <<>>,
   ack_ok |-> ack_ok]

EventIds(out) == [i \in 1..Len(out) |-> out[i].ev.frame_id]

AcksSent(st) == [i \in 1..Len(st.acks) |-> [ack_frame_id |-> st.acks[i]]]

Receive(msg, ack_ok) ==
  LET st == HandleMessage(RxState(ack_ok), msg)
  IN /\ r_pc = "loop"
     /\ UNCHANGED r_pc
     /\ rx_in_order' = (rx_in_order /\ ~msg.marker
                           /\ msg.frame_id = current_collecting_fid + 1)
     /\ reassembly_buffer' = st.buf
     /\ current_collecting_fid' = st.cur
     /\ last_processed_fid' = st.last
     /\ ack_chan' = ack_chan \o AcksSent(st)
     /\ rx_in' = <<msg>>
     /\ rx_out' = st.out
     /\ rx_trace' = st.trace
     /\ emitted' = emitted \o EventIds(st.out)

\* Ctrl+C while run() is outside data_socket.recv (lines 189-194): the
\* frame being collected is flushed, then the sockets are closed.
InterruptInLoop ==
  /\ r_pc = "loop"
  /\ \E ack_ok \in BOOLEAN :
       LET st0 == RxState(ack_ok)
           st == IF st0.cur # -1 /\ DictHas(st0.buf, st0.cur)
                 THEN ProcessAndClearFrame(st0, st0.cur) ELSE st0
       IN /\ reassembly_buffer' = st.buf
          /\ last_processed_fid' = st.last
          /\ ack_chan' = ack_chan \o AcksSent(st)
          /\ rx_out' = st.out
          /\ rx_trace' = st.trace
          /\ emitted' = emitted \o EventIds(st.out)
  /\ rx_in' = <<>>
  /\ r_pc' = "closed"
  /\ UNCHANGED <<pvars, jvars, gvars, current_collecting_fid, rx_in_order, svars, lvars, data_chan, now>>

\* Ctrl+C inside data_socket.recv (lines 131-133): break, then finally.
InterruptInRecv ==
  /\ r_pc = "loop"
  /\ r_pc' = "closed"
  /\ rx_in' = <<>>
  /\ rx_out' = <<>>
  /\ rx_trace' = <<>>
  /\ UNCHANGED <<pvars, jvars, gvars, reassembly_buffer, current_collecting_fid, last_processed_fid,
                 emitted, rx_in_order, svars, lvars, data_chan, ack_chan, now>>

\* ---------------------------------------------------------- the network
\* Words a chunk delivered by the network may carry (one row of width 3).
NetBytes == {<<1, 2, 3>>, <<4, 5, 6>>}

PcdMsg(f, t, i, b) ==
  [frame_id |-> f, marker |-> (i = t - 1),
   frag_info |-> <<[total_chunks |-> t, chunk_index |-> i,
                    dtype |-> "float32", shape |-> <<Len(b) \div 3, 3>>]>>,
   pcd_chunk_bytes |-> b, json_data |-> <<>>]

JsonMsg(f, d) ==
  [frame_id |-> f, marker |-> TRUE, frag_info |-> <<>>,
   pcd_chunk_bytes |-> <<>>, json_data |-> d]

\* What the fragmenter can put on the wire for frames 0..MaxFrameId of
\* MaxChunks - 1 or MaxChunks chunks, with either payload in each chunk.
NetMsgs ==
  {PcdMsg(f, t, i, b) : f \in 0..MaxFrameId, t \in {MaxChunks - 1, MaxChunks},
                        i \in 0..(MaxChunks - 1), b \in NetBytes}
  \cup {JsonMsg(f, <<7>>) : f \in 0..MaxFrameId}

WellFormed(m) ==
  m.frag_info # <<>> => m.frag_info[1].chunk_index < m.frag_info[1].total_chunks

\* The network hands the receiver any of these in any order, any number of
\* times: loss, duplication, reordering and altered bytes.  The acks pushed
\* go to a peer that is not part of this specification.
Deliver ==
  \E msg \in {m \in NetMsgs : WellFormed(m)}, ack_ok \in BOOLEAN :
     /\ Receive(msg, ack_ok)
     /\ UNCHANGED <<pvars, jvars, gvars, svars, lvars, data_chan, now>>

\* Many frames, two chunks of each: the first chunk (index 0) and the
\* terminal chunk of frames 0..MaxLagFrame, in any order, any number of
\* times.
DeliverEnds ==
  \E f \in 0..MaxLagFrame, i \in {0, MaxChunks - 1}, ack_ok \in BOOLEAN :
     /\ Receive(PcdMsg(f, MaxChunks, i, <<1, 2, 3>>), ack_ok)
     /\ UNCHANGED <<pvars, jvars, gvars, svars, lvars, data_chan, now>>

\* What else a peer can put on the DISH socket.  A packed message that
\* msgpack.unpackb rejects (or that is no dict: msg.get raises inside the
\* try of lines 137-144), a dict without "frame_id", and a chunk whose
\* frag_info lacks "total_chunks".  A dict is a record; a key the dict lacks
\* is a field the record lacks.
Undecodable == [undecodable |-> TRUE]

NoFrameId == [marker |-> FALSE, frag_info |-> <<>>, json_data |-> <<7>>]

NoTotalChunks(f, i) ==
  [frame_id |-> f, marker |-> FALSE,
   frag_info |-> <<[chunk_index |-> i, dtype |-> "float32", shape |-> <<1, 3>>]>>,
   pcd_chunk_bytes |-> <<1, 2, 3>>, json_data |-> <<>>]

MalformedMsgs ==
  {Undecodable, NoFrameId}
  \cup {NoTotalChunks(f, i) : f \in 0..MaxFrameId, i \in 0..(MaxChunks - 1)}

\* One pass of run()'s loop body (lines 137-186) on such a message.  raised:
\* frag_info["total_chunks"] (line 167) raised KeyError, which no except
\* clause of run() catches: the finally clause closes the sockets and run()
\* raises.
HandleMalformed(st, packed) ==
  IF "undecodable" \in DOMAIN packed THEN [st |-> st, raised |-> FALSE]
  ELSE IF "frame_id" \notin DOMAIN packed THEN [st |-> st, raised |-> FALSE]
  ELSE IF IsStale(st, packed) THEN [st |-> st, raised |-> FALSE]
  ELSE LET s1 == NextFrameTrigger(st, packed.frame_id)
       IN IF /\ packed.frame_id = s1.cur
             /\ packed.frag_info # <<>>
             /\ ~DictHas(s1.buf, packed.frame_id)
             /\ "total_chunks" \notin DOMAIN packed.frag_info[1]
          THEN [st |-> s1, raised |-> TRUE]
          ELSE [st |-> OverflowProtection(MarkerTrigger(StoreChunk(s1, packed), packed)),
                raised |-> FALSE]

DeliverMalformed ==
  \E packed \in MalformedMsgs, ack_ok \in BOOLEAN :
     LET res == HandleMalformed(RxState(ack_ok), packed)
         st == res.st
     IN /\ r_pc = "loop"
        /\ r_pc' = IF res.raised THEN "raised" ELSE "loop"
        /\ rx_in_order' = FALSE
        /\ reassembly_buffer' = st.buf
        /\ current_collecting_fid' = st.cur
        /\ last_processed_fid' = st.last
        /\ ack_chan' = ack_chan \o AcksSent(st)
        /\ rx_in' = <<packed>>
        /\ rx_out' = st.out
        /\ rx_trace' = st.trace
        /\ emitted' = emitted \o EventIds(st.out)
        /\ UNCHANGED <<pvars, jvars, gvars, svars, lvars, data_chan, now>>

\* Chunks of which the network may have cut the payload short: a whole row
\* of width 3, or two words of a row.
CutBytes == {<<1, 2, 3>>, <<4, 5>>}

DeliverCut ==
  \E f \in 0..MaxFrameId, i \in 0..(MaxChunks - 1), b \in CutBytes, ack_ok \in BOOLEAN :
     /\ Receive(PcdMsg(f, MaxChunks, i, b), ack_ok)
     /\ UNCHANGED <<pvars, jvars, gvars, svars, lvars, data_chan, now>>

\* The DISH socket hands over the oldest chunk the RADIO socket sent.
PipeRecv ==
  /\ data_chan # <<>>
  /\ \E ack_ok \in BOOLEAN : Receive(Head(data_chan), ack_ok)
  /\ data_chan' = Tail(data_chan)
  /\ UNCHANGED <<pvars, jvars, gvars, svars, lvars, now>>

\* -------------------------------------------------------------- the sender
\* The words of frame f are pairwise distinct: row r, column c.
Word(f, r, c) == (f * MaxRows + (r - 1)) * 4 + c

\* What folder_feeder yields for a .pcd file of n points: "points" (n, 3)
\* and "intensities" (n,) or None (<<>>; <<v>> holds the array v).
Cloud(f, n, has_intensity) ==
  [points |-> [r \in 1..n |-> <<Word(f, r, 1), Word(f, r, 2), Word(f, r, 3)>>],
   intensities |-> IF has_intensity THEN <<[r \in 1..n |-> Word(f, r, 4)]>>
                   ELSE <<>>]

FeederInputs(f) ==
  {[data_key |-> "pcd_data", data_payload |-> Cloud(f, n, h)] :
      n \in 0..MaxRows, h \in BOOLEAN}
  \cup {[data_key |-> "json_data", data_payload |-> <<7>>]}

\* np.hstack((np_points, np_intensities.reshape(-1, 1)))
HStack(points, column) == [r \in 1..Len(points) |-> Append(points[r], column[r])]

CombinedArray(np_data) ==
  IF np_data.intensities # <<>> /\ Len(np_data.intensities[1]) = Len(np_data.points)
  THEN [array |-> HStack(np_data.points, np_data.intensities[1]), shape |-> <<-1, 4>>]
  ELSE [array |-> np_data.points, shape |-> <<-1, 3>>]

\* Variant: total_points // POINTS_PER_CHUNK.
TotalChunksFloor(total_points) == total_points \div POINTS_PER_CHUNK

TotalChunks(total_points) == (total_points + POINTS_PER_CHUNK - 1) \div POINTS_PER_CHUNK

\* Variant: chunk_array = combined_array[start:end - 1].
ChunkMessageShortSlice(fid, c, i) ==
  LET start == i * POINTS_PER_CHUNK
      end == MinOf((i + 1) * POINTS_PER_CHUNK, c.total_points)
      chunk_array == SubSeq(c.combined_array, start + 1, end - 1)
      is_last_chunk == (i = c.total_chunks - 1)
  IN [frame_id |-> fid, marker |-> is_last_chunk,
      frag_info |-> <<[total_chunks |-> c.total_chunks, chunk_index |-> i,
                       dtype |-> c.dtype,
                       shape |-> <<Len(chunk_array), c.shape[2]>>]>>,
      pcd_chunk_bytes |-> ToBytes(chunk_array), json_data |-> <<>>]

\* Variant: is_last_chunk = (i == total_chunks).
ChunkMessageNoMarker(fid, c, i) ==
  LET start == i * POINTS_PER_CHUNK
      end == MinOf((i + 1) * POINTS_PER_CHUNK, c.total_points)
      chunk_array == SubSeq(c.combined_array, start + 1, end)
      is_last_chunk == (i = c.total_chunks)
  IN [frame_id |-> fid, marker |-> is_last_chunk,
      frag_info |-> <<[total_chunks |-> c.total_chunks, chunk_index |-> i,
                       dtype |-> c.dtype,
                       shape |-> <<Len(chunk_array), c.shape[2]>>]>>,
      pcd_chunk_bytes |-> ToBytes(chunk_array), json_data |-> <<>>]

\* The message of loop iteration i (0-based) of the call with locals c.
ChunkMessage(fid, c, i) ==
  LET start == i * POINTS_PER_CHUNK
      end == MinOf((i + 1) * POINTS_PER_CHUNK, c.total_points)
      chunk_array == SubSeq(c.combined_array, start + 1, end)
      is_last_chunk == (i = c.total_chunks - 1)
  IN [frame_id |-> fid, marker |-> is_last_chunk,
      frag_info |-> <<[total_chunks |-> c.total_chunks, chunk_index |-> i,
                       dtype |-> c.dtype,
                       shape |-> <<Len(chunk_array), c.shape[2]>>]>>,
      pcd_chunk_bytes |-> ToBytes(chunk_array), json_data |-> <<>>]

\* Variant: send_frame without line 52.
SendFrameStartNoRecord(data_key, data_payload) ==
  /\ s_pc = "idle"
  /\ frame_id < MaxFrames
  /\ tx_frames' = Append(tx_frames, [frame_id |-> frame_id, data_key |-> data_key,
                                     data_payload |-> data_payload])
  /\ tx_log' = <<>>
  /\ IF data_key = "json_data"
     THEN /\ s_call' = [data_key |-> data_key, data_payload |-> data_payload,
                        send_time |-> now]
          /\ s_pc' = "json"
     ELSE LET combined == CombinedArray(data_payload)
              total_points == Len(combined.array)
              total_chunks == TotalChunks(total_points)
          IN /\ s_call' = [data_key |-> data_key, send_time |-> now,
                           combined_array |-> combined.array,
                           dtype |-> "float32", shape |-> combined.shape,
                           total_points |-> total_points,
                           total_chunks |-> total_chunks, i |-> 0]
             /\ s_pc' = IF total_chunks > 0 THEN "chunk" ELSE "incr"
  /\ UNCHANGED <<pvars, jvars, gvars, frame_id, sent_timestamps, tx_lost, rvars, lvars,
                 data_chan, ack_chan, now>>

\* send_frame, lines 50-52 and the locals of lines 68-87.
SendFrameStart(data_key, data_payload) ==
  /\ s_pc = "idle"
  /\ frame_id < MaxFrames
  /\ sent_timestamps' = DictSet(sent_timestamps, frame_id, now)
  /\ tx_frames' = Append(tx_frames, [frame_id |-> frame_id, data_key |-> data_key,
                                     data_payload |-> data_payload])
  /\ tx_log' = <<>>
  /\ IF data_key = "json_data"
     THEN /\ s_call' = [data_key |-> data_key, data_payload |-> data_payload,
                        send_time |-> now]
          /\ s_pc' = "json"
     ELSE LET combined == CombinedArray(data_payload)
              total_points == Len(combined.array)
              total_chunks == TotalChunks(total_points)
          IN /\ s_call' = [data_key |-> data_key, send_time |-> now,
                           combined_array |-> combined.array,
                           dtype |-> "float32", shape |-> combined.shape,
                           total_points |-> total_points,
                           total_chunks |-> total_chunks, i |-> 0]
             /\ s_pc' = IF total_chunks > 0 THEN "chunk" ELSE "incr"
  /\ UNCHANGED <<pvars, jvars, gvars, frame_id, tx_lost, rvars, lvars, data_chan, ack_chan, now>>

\* Path A, lines 56-64: the send is not guarded; when it raises, send_frame
\* raises and main's finally closes the sender.
SendJson ==
  /\ s_pc = "json"
  /\ \E ok \in BOOLEAN :
       LET msg == JsonMsg(frame_id, s_call.data_payload)
       IN /\ tx_log' = Append(tx_log, msg)
          /\ data_chan' = IF ok THEN Append(data_chan, msg) ELSE data_chan
          /\ tx_lost' = IF ok THEN tx_lost ELSE tx_lost \cup {frame_id}
          /\ s_pc' = IF ok THEN "incr" ELSE "raised"
  /\ UNCHANGED <<pvars, jvars, gvars, frame_id, sent_timestamps, s_call, tx_frames, rvars, lvars,
                 ack_chan, now>>

\* Path B, one iteration of the loop of lines 89-122: a send that raises is
\* logged and the loop goes on.
SendChunk ==
  /\ s_pc = "chunk"
  /\ \E ok \in BOOLEAN :
       LET msg == ChunkMessage(frame_id, s_call, s_call.i)
       IN /\ tx_log' = Append(tx_log, msg)
          /\ data_chan' = IF ok THEN Append(data_chan, msg) ELSE data_chan
          /\ tx_lost' = IF ok THEN tx_lost ELSE tx_lost \cup {frame_id}
          /\ s_call' = [s_call EXCEPT !.i = @ + 1]
          /\ s_pc' = IF s_call.i + 1 < s_call.total_chunks THEN "chunk" ELSE "incr"
  /\ UNCHANGED <<pvars, jvars, gvars, frame_id, sent_timestamps, tx_frames, rvars, lvars, ack_chan, now>>

\* Variant: send_frame returns only once the frame's ack has been consumed.
SendFrameEndAwaitAck ==
  /\ s_pc = "incr"
  /\ ~DictHas(sent_timestamps, frame_id)
  /\ frame_id' = frame_id + 1
  /\ s_pc' = "idle"
  /\ s_call' = <<>>
  /\ UNCHANGED <<pvars, jvars, gvars, sent_timestamps, tx_log, tx_frames, tx_lost, rvars, lvars,
                 data_chan, ack_chan, now>>

\* Variant: self.frame_id += 1 only when every chunk send succeeded.
SendFrameEndUnlessLost ==
  /\ s_pc = "incr"
  /\ frame_id' = IF frame_id \in tx_lost THEN frame_id ELSE frame_id + 1
  /\ s_pc' = "idle"
  /\ s_call' = <<>>
  /\ UNCHANGED <<pvars, jvars, gvars, sent_timestamps, tx_log, tx_frames, tx_lost, rvars, lvars,
                 data_chan, ack_chan, now>>

\* Variant: the pending-ack record is written when send_frame has finished
\* emitting, in place of line 52.
SendFrameEndRecords ==
  /\ s_pc = "incr"
  /\ sent_timestamps' = DictSet(sent_timestamps, frame_id, now)
  /\ frame_id' = frame_id + 1
  /\ s_pc' = "idle"
  /\ s_call' = <<>>
  /\ UNCHANGED <<pvars, jvars, gvars, tx_log, tx_frames, tx_lost, rvars, lvars,
                 data_chan, ack_chan, now>>

\* line 124
SendFrameEnd ==
  /\ s_pc = "incr"
  /\ frame_id' = frame_id + 1
  /\ s_pc' = "idle"
  /\ s_call' = <<>>
  /\ UNCHANGED <<pvars, jvars, gvars, sent_timestamps, tx_log, tx_frames, tx_lost, rvars, lvars,
                 data_chan, ack_chan, now>>

\* main_udp's loop: the next item of the feeder.
Feed ==
  \E x \in FeederInputs(frame_id) : SendFrameStart(x.data_key, x.data_payload)

\* The feeder of a folder of small files: .json files, or .pcd files of one
\* point more than a chunk holds.
FeedSmall ==
  /\ frame_id < MaxAckFrames
  /\ \E x \in {[data_key |-> "json_data", data_payload |-> <<7>>],
            [data_key |-> "pcd_data",
             data_payload |-> Cloud(frame_id, POINTS_PER_CHUNK + 1, FALSE)]} :
       SendFrameStart(x.data_key, x.data_payload)

\* The feeder of a folder of .json files.
FeedJson == SendFrameStart("json_data", <<7>>)

\* Time spent in a join: it passes, one unit per step of the thread joined,
\* while the main thread is inside join, until the timeout.
Waited(pc, wait) ==
  IF (pc = "join") /\ (wait < JoinTimeout) THEN wait + 1 ELSE wait

\* main_udp, lines 42-49: the feeder of n items is exhausted, or send_frame
\* raised; the finally clause calls sender.close(), whose line 129 sets
\* _stop_event.  s_pc = "closed": the pacing loop is over, the event is set.
Close(n) ==
  /\ \/ (s_pc = "idle") /\ (frame_id = n)
     \/ s_pc = "raised"
  /\ s_pc' = "closed"
  /\ c_pc' = "join"
  /\ UNCHANGED <<pvars, c_wait, k_pc, k_wait, gvars, frame_id, sent_timestamps, s_call, tx_log, tx_frames, tx_lost,
                 rvars, lvars, data_chan, ack_chan, now>>

\* The folder of small files held MaxAckFrames files.
MainClose == Close(MaxAckFrames)

\* Variant: close() without line 130, the join.
CloseJoinSkipped ==
  /\ c_pc = "join"
  /\ c_pc' = "release"
  /\ UNCHANGED <<pvars, c_wait, k_pc, k_wait, gvars, rvars, svars, lvars, data_chan, ack_chan, now>>

\* close(), line 130: ack_thread.join(timeout=1.0) returns once the thread
\* has ended or the timeout has passed.
CloseJoin ==
  /\ c_pc = "join"
  /\ (l_pc \in {"stopped", "dead"}) \/ (c_wait >= JoinTimeout)
  /\ c_pc' = "release"
  /\ UNCHANGED <<pvars, c_wait, k_pc, k_wait, gvars, rvars, svars, lvars, data_chan, ack_chan, now>>

\* close(), lines 132-134: the sockets are closed, the context terminated.
CloseSockets ==
  /\ c_pc = "release"
  /\ c_pc' = "released"
  /\ UNCHANGED <<pvars, c_wait, k_pc, k_wait, gvars, rvars, svars, lvars, data_chan, ack_chan, now>>

\* --------------------------------------------------------- the ack listener
\* What a step of the listener thread leaves alone, and the time it takes.
AckStepTime ==
  /\ c_wait' = Waited(c_pc, c_wait)
  /\ UNCHANGED <<pvars, c_pc, k_pc, k_wait, gvars, rvars, data_chan, now>>

\* line 35: _stop_event is not set, the loop body is entered.
AckEnter ==
  /\ l_pc = "loop"
  /\ s_pc # "closed"
  /\ l_pc' = "recv"
  /\ AckStepTime
  /\ UNCHANGED <<rtt_records_ms, l_ack, l_send_time, rtt_log, l_outcome, svars, ack_chan>>

\* line 37: a message is there; lines 40-42 unpack it.  On a socket that
\* close() has closed, recv raises ZMQError, which is not zmq.Again: the
\* thread ends.
AckRecv ==
  /\ l_pc = "recv"
  /\ IF c_pc = "released"
     THEN /\ l_pc' = "dead"
          /\ UNCHANGED <<l_ack, ack_chan, l_outcome>>
     ELSE /\ ack_chan # <<>>
          /\ l_ack' = Head(ack_chan).ack_frame_id
          /\ ack_chan' = Tail(ack_chan)
          /\ l_pc' = "test"
          /\ l_outcome' = "pending"
  /\ AckStepTime
  /\ UNCHANGED <<rtt_records_ms, l_send_time, rtt_log, svars>>

\* lines 37-38: zmq.Again, sleep 1 ms, continue
AckAgain ==
  /\ l_pc = "recv"
  /\ c_pc # "released"
  /\ ack_chan = <<>>
  /\ l_pc' = "loop"
  /\ AckStepTime
  /\ UNCHANGED <<rtt_records_ms, l_ack, l_send_time, rtt_log, l_outcome, svars, ack_chan>>

\* line 43
AckTest ==
  /\ l_pc = "test"
  /\ l_pc' = IF DictHas(sent_timestamps, l_ack) THEN "pop" ELSE "loop"
  /\ l_outcome' = IF DictHas(sent_timestamps, l_ack) THEN l_outcome ELSE "ignored"
  /\ AckStepTime
  /\ UNCHANGED <<rtt_records_ms, l_ack, l_send_time, rtt_log, svars, ack_chan>>

\* Variant: send_time = self.sent_timestamps[ack_frame_id], no removal.
AckPopKeep ==
  /\ l_pc = "pop"
  /\ IF DictHas(sent_timestamps, l_ack)
     THEN /\ l_send_time' = DictGet(sent_timestamps, l_ack)
          /\ l_pc' = "append"
     ELSE /\ l_pc' = "dead"
          /\ UNCHANGED l_send_time
  /\ AckStepTime
  /\ UNCHANGED <<rtt_records_ms, l_ack, rtt_log, l_outcome, svars, ack_chan>>

\* line 44: dict.pop(key) of an absent key raises KeyError, which ends the
\* thread.
AckPop ==
  /\ l_pc = "pop"
  /\ IF DictHas(sent_timestamps, l_ack)
     THEN /\ l_send_time' = DictGet(sent_timestamps, l_ack)
          /\ sent_timestamps' = DictPop(sent_timestamps, l_ack)
          /\ l_pc' = "append"
     ELSE /\ l_pc' = "dead"
          /\ UNCHANGED <<l_send_time, sent_timestamps>>
  /\ AckStepTime
  /\ UNCHANGED <<rtt_records_ms, l_ack, rtt_log, l_outcome, frame_id, s_pc, s_call,
                 tx_log, tx_frames, tx_lost, ack_chan>>

\* lines 45-47
AckAppend ==
  /\ l_pc = "append"
  /\ LET rtt == (now - l_send_time) * 1000
     IN /\ rtt_records_ms' = Append(rtt_records_ms, rtt)
        /\ rtt_log' = Append(rtt_log, [frame_id |-> l_ack, rtt |-> rtt])
  /\ l_pc' = "loop"
  /\ l_outcome' = "sampled"
  /\ AckStepTime
  /\ UNCHANGED <<l_ack, l_send_time, svars, ack_chan>>

\* line 35: _stop_event is set, the loop ends.
AckStop ==
  /\ l_pc = "loop"
  /\ s_pc = "closed"
  /\ l_pc' = "stopped"
  /\ AckStepTime
  /\ UNCHANGED <<rtt_records_ms, l_ack, l_send_time, rtt_log, l_outcome, svars, ack_chan>>

\* The ack channel hands the listener an ack for any frame id, sent or not,
\* any number of times.
InjectAck ==
  /\ Len(ack_chan) < MaxAcks
  /\ \E f \in 0..MaxAckFrames : ack_chan' = Append(ack_chan, [ack_frame_id |-> f])
  /\ UNCHANGED <<pvars, jvars, gvars, rvars, svars, lvars, data_chan, now>>

Tick ==
  /\ now < MaxTime
  /\ now' = now + 1
  /\ UNCHANGED <<pvars, jvars, gvars, rvars, svars, lvars, data_chan, ack_chan>>

\* ------------------------------------------- sequence detector, feedback
\* struct.pack('!IdQQQ', MAGIC, send_timestamp, seq, received, lost): the
\* datagram's length and its five fields.
FeedbackDatagram(send_timestamp, seq, received, lost) ==
  [len |-> FEEDBACK_SIZE, magic |-> MAGIC, send_time |-> send_timestamp,
   seq |-> seq, received |-> received, lost |-> lost]

\* "if sequence < last_seq" in place of "<=".
IsDuplicateStrict(sequence, last) == sequence < last

\* if sequence <= last_seq
IsDuplicate(sequence, last) == sequence <= last

\* "sequence - last_seq" in place of "sequence - last_seq - 1".
LostFramesNoMinusOne(sequence, last) ==
  IF sequence > last + 1 THEN sequence - last ELSE 0

\* if sequence > last_seq + 1: lost_frames = sequence - last_seq - 1
LostFrames(sequence, last) ==
  IF sequence > last + 1 THEN sequence - last - 1 ELSE 0

\* Variant: the feedback call placed before the counters are updated.
OnPacketReceivedFeedbackFirst(pkt, send_ok) ==
  /\ d_in' = <<pkt>>
  /\ IF IsDuplicate(pkt.sequence, last_seq)
     THEN UNCHANGED <<last_seq, total_received, total_bytes, total_lost_frames,
                      log_buffer, fb_sent, fb_chan>>
     ELSE LET lost == total_lost_frames + LostFrames(pkt.sequence, last_seq)
              dgram == FeedbackDatagram(pkt.send_timestamp, pkt.sequence,
                                        total_received, total_lost_frames)
          IN /\ total_received' = total_received + 1
             /\ total_bytes' = total_bytes + pkt.packet_size
             /\ total_lost_frames' = lost
             /\ last_seq' = pkt.sequence
             /\ log_buffer' = Append(log_buffer,
                                     [seq |-> pkt.sequence,
                                      bytes |-> pkt.packet_size,
                                      lost_frames |-> lost])
             /\ fb_sent' = Append(fb_sent, dgram)
             /\ fb_chan' = IF send_ok THEN fb_chan \cup {dgram} ELSE fb_chan
  /\ UNCHANGED <<pvars, jvars, tvars, wall, rvars, svars, lvars, data_chan, ack_chan, now>>

\* on_packet_received(sequence, send_timestamp, ..., packet_size, ...), with
\* SAVE_FILES off.  send_ok: FeedbackSender has a socket and sendto does not
\* raise (send_feedback_now swallows the exception).
OnPacketReceived(pkt, send_ok) ==
  /\ d_in' = <<pkt>>
  /\ IF IsDuplicate(pkt.sequence, last_seq)
     THEN UNCHANGED <<last_seq, total_received, total_bytes, total_lost_frames,
                      log_buffer, fb_sent, fb_chan>>
     ELSE LET lost == total_lost_frames + LostFrames(pkt.sequence, last_seq)
              dgram == FeedbackDatagram(pkt.send_timestamp, pkt.sequence,
                                        total_received + 1, lost)
          IN /\ total_received' = total_received + 1
             /\ total_bytes' = total_bytes + pkt.packet_size
             /\ total_lost_frames' = lost
             /\ last_seq' = pkt.sequence
             /\ log_buffer' = Append(log_buffer,
                                     [seq |-> pkt.sequence,
                                      bytes |-> pkt.packet_size,
                                      lost_frames |-> lost])
             /\ fb_sent' = Append(fb_sent, dgram)
             /\ fb_chan' = IF send_ok THEN fb_chan \cup {dgram} ELSE fb_chan
  /\ UNCHANGED <<pvars, jvars, tvars, wall, rvars, svars, lvars, data_chan, ack_chan, now>>

\* GstReceiverCore._on_new_sample: jitter buffer and UDP hand the callback
\* any of the packets sent, any number of times, in any order.  Packet q has
\* one size, 1..MaxPacketSize bytes, and one send timestamp (the sender's
\* clock never runs backwards), the same in each of its copies.
Packets ==
  { [sequence |-> q, send_timestamp |-> q \div 2,
     packet_size |-> 1 + (q % MaxPacketSize)] : q \in 0..MaxSeq }

GstDeliver == \E pkt \in Packets, send_ok \in BOOLEAN : OnPacketReceived(pkt, send_ok)

\* RTTTracker's fields as one record.
TrackerState ==
  [latest_rtt |-> latest_rtt, receiver_last_seq |-> receiver_last_seq,
   receiver_received |-> receiver_received, receiver_lost |-> receiver_lost,
   fb_calls |-> fb_calls]

\* _process_feedback without "if magic != MAGIC: return".
ProcessFeedbackAnyMagic(st, data, time_now) ==
  LET rtt_ms == (time_now - data.send_time) * 1000
  IN [st EXCEPT !.latest_rtt = <<rtt_ms>>,
                !.receiver_last_seq = data.seq,
                !.receiver_received = data.received,
                !.receiver_lost = data.lost,
                !.fb_calls = Append(@, <<rtt_ms, data.seq, data.received,
                                         data.lost>>)]

\* RTTTracker._process_feedback(data) for len(data) >= FEEDBACK_SIZE: the
\* fields are those of data[:FEEDBACK_SIZE]; on_feedback is set (main_send).
ProcessFeedback(st, data, time_now) ==
  IF data.magic # MAGIC
  THEN st
  ELSE LET rtt_ms == (time_now - data.send_time) * 1000
       IN [st EXCEPT !.latest_rtt = <<rtt_ms>>,
                     !.receiver_last_seq = data.seq,
                     !.receiver_received = data.received,
                     !.receiver_lost = data.lost,
                     !.fb_calls = Append(@, <<rtt_ms, data.seq, data.received,
                                              data.lost>>)]

\* f'{x:.<digits>f}' of x = num / den, as the integer the digits spell
\* (12.50 is 1250); no value in reach lies half way between two of them.
Fixed(num, den, scale) == (2 * num * scale + den) \div (2 * den)

\* main_send's globals that on_feedback reads and writes.
SenderStats ==
  [total_lost_frames |-> sender_lost_frames, latest_loss_rate |-> latest_loss_rate,
   sent_packet_info |-> sent_packet_info, log_buffer |-> sender_log_buffer]

\* main_send.on_feedback(rtt_ms, seq, received, lost): seq is unpacked as an
\* unsigned integer, so "if seq >= 0" holds.
OnFeedback(ps, rtt_ms, seq, received, lost) ==
  LET known == DictHas(ps.sent_packet_info, seq)
      timestamp == IF known THEN DictGet(ps.sent_packet_info, seq).timestamp ELSE 0
      bytes == IF known THEN DictGet(ps.sent_packet_info, seq).bytes ELSE 0
      rate == [num |-> lost * 100, den |-> seq + 1]
      row == [timestamp |-> Fixed(timestamp, 1, 1000), seq |-> seq,
              bytes |-> bytes, rtt_ms |-> Fixed(rtt_ms, 1, 100),
              loss_rate |-> Fixed(rate.num, rate.den, 100)]
  IN [total_lost_frames |-> lost, latest_loss_rate |-> rate,
      sent_packet_info |-> DictPop(ps.sent_packet_info, seq),
      log_buffer |-> Append(ps.log_buffer, row)]

\* GstSenderCore.send_packet with main_send.on_packet_sent as its callback:
\* a buffer that appsrc refuses changes nothing.  The logger was made at
\* time 0.
SendPacket ==
  /\ frame_count < MaxSent
  /\ \E ok \in BOOLEAN :
       LET sequence == frame_count
           packet_size == 1 + (sequence % MaxPacketSize)
       IN IF ok
          THEN /\ frame_count' = frame_count + 1
               /\ total_sent' = total_sent + 1
               /\ sender_total_bytes' = sender_total_bytes + packet_size
               /\ sent_packet_info' = DictSet(sent_packet_info, sequence,
                                              [timestamp |-> wall,
                                               bytes |-> packet_size])
          ELSE UNCHANGED <<frame_count, total_sent, sender_total_bytes,
                           sent_packet_info>>
  /\ UNCHANGED <<sender_lost_frames, latest_loss_rate, sender_log_buffer,
                 jvars, gvars, rvars, svars, lvars, data_chan, ack_chan, now>>

\* _listen: while self.running
ListenCheck ==
  /\ t_pc = "check"
  /\ t_pc' = IF running THEN "recv" ELSE "done"
  /\ k_wait' = Waited(k_pc, k_wait)
  /\ UNCHANGED <<pvars, c_pc, c_wait, k_pc, latest_rtt, receiver_last_seq, receiver_received, receiver_lost,
                 running, t_in, fb_calls, dvars, fb_chan, wall,
                 rvars, svars, lvars, data_chan, ack_chan, now>>

\* _listen: recvfrom returned a datagram; the rest of the iteration.
ListenRecv ==
  /\ t_pc = "recv"
  /\ k_pc # "released"
  /\ \E data \in fb_chan :
       LET st == IF data.len >= FEEDBACK_SIZE
                 THEN ProcessFeedback(TrackerState, data, wall)
                 ELSE TrackerState
       IN /\ fb_chan' = fb_chan \ {data}
          /\ t_in' = <<data>>
          /\ latest_rtt' = st.latest_rtt
          /\ receiver_last_seq' = st.receiver_last_seq
          /\ receiver_received' = st.receiver_received
          /\ receiver_lost' = st.receiver_lost
          /\ fb_calls' = st.fb_calls
          /\ LET ps == IF st.fb_calls = fb_calls
                       THEN SenderStats
                       ELSE LET call == st.fb_calls[Len(st.fb_calls)]
                            IN OnFeedback(SenderStats, call[1], call[2],
                                          call[3], call[4])
             IN /\ sender_lost_frames' = ps.total_lost_frames
                /\ latest_loss_rate' = ps.latest_loss_rate
                /\ sent_packet_info' = ps.sent_packet_info
                /\ sender_log_buffer' = ps.log_buffer
  /\ t_pc' = "check"
  /\ k_wait' = Waited(k_pc, k_wait)
  /\ UNCHANGED <<frame_count, total_sent, sender_total_bytes,
                 c_pc, c_wait, k_pc, running, dvars, wall, rvars, svars, lvars,
                 data_chan, ack_chan, now>>

\* _listen: recvfrom raised socket.timeout (settimeout(0.1)): continue; on a
\* socket that stop() has closed it raises OSError: printed, and the loop
\* goes on to its test.
ListenTimeout ==
  /\ t_pc = "recv"
  /\ t_pc' = "check"
  /\ t_in' = <<>>
  /\ k_wait' = Waited(k_pc, k_wait)
  /\ UNCHANGED <<pvars, c_pc, c_wait, k_pc, latest_rtt, receiver_last_seq, receiver_received, receiver_lost,
                 running, fb_calls, dvars, fb_chan, wall,
                 rvars, svars, lvars, data_chan, ack_chan, now>>

\* RTTTracker.stop(), line 65, from main_send's finally
TrackerStop ==
  /\ running
  /\ running' = FALSE
  /\ k_pc' = "join"
  /\ UNCHANGED <<pvars, c_pc, c_wait, k_wait, latest_rtt, receiver_last_seq, receiver_received,
                 receiver_lost, t_pc, t_in, fb_calls, dvars, fb_chan, wall,
                 rvars, svars, lvars, data_chan, ack_chan, now>>

\* stop(), lines 66-67: thread.join(timeout=1) returns once the thread has
\* ended or the timeout has passed.
TrackerJoin ==
  /\ k_pc = "join"
  /\ (t_pc = "done") \/ (k_wait >= JoinTimeout)
  /\ k_pc' = "release"
  /\ UNCHANGED <<pvars, c_pc, c_wait, k_wait, gvars, rvars, svars, lvars, data_chan, ack_chan, now>>

\* stop(), lines 68-69: the socket is closed.
TrackerCloseSocket ==
  /\ k_pc = "release"
  /\ k_pc' = "released"
  /\ UNCHANGED <<pvars, c_pc, c_wait, k_wait, gvars, rvars, svars, lvars, data_chan, ack_chan, now>>

\* The feedback port is an open UDP port (bind(('', listen_port))): it gets
\* the receiver's feedback for packet 0, and from any host datagrams shorter
\* than, as long as and longer than it, with MAGIC or another number in front.
FeedbackDatagrams ==
  { [FeedbackDatagram(0, 0, 1, 0) EXCEPT !.len = n, !.magic = m] :
      n \in {0, FEEDBACK_SIZE - 1, FEEDBACK_SIZE, FEEDBACK_SIZE + 1},
      m \in {MAGIC, MAGIC + 1} }

InjectFeedback ==
  /\ \E data \in FeedbackDatagrams : fb_chan' = fb_chan \cup {data}
  /\ fb_chan' # fb_chan
  /\ Cardinality(fb_chan) < MaxDatagrams
  /\ Len(fb_calls) < MaxCalls
  /\ UNCHANGED <<pvars, jvars, dvars, tvars, wall, rvars, svars, lvars, data_chan, ack_chan, now>>

WallTick ==
  /\ wall < MaxWall
  /\ wall' = wall + 1
  /\ UNCHANGED <<pvars, jvars, dvars, tvars, fb_chan, rvars, svars, lvars, data_chan, ack_chan, now>>

\* ------------------------------------------------------------------ Init
Init ==
  /\ reassembly_buffer = <<>>
  /\ current_collecting_fid = -1
  /\ last_processed_fid = -1
  /\ r_pc = "loop"
  /\ frame_id = 0
  /\ sent_timestamps = <<>>
  /\ rtt_records_ms = <<>>
  /\ s_pc = "idle"
  /\ s_call = <<>>
  /\ l_pc = "loop"
  /\ l_ack = -1
  /\ l_send_time = 0
  /\ data_chan = <<>>
  /\ ack_chan = <<>>
  /\ now = 0
  /\ rx_in = <<>>
  /\ rx_out = <<>>
  /\ rx_trace = <<>>
  /\ emitted = <<>>
  /\ rx_in_order = TRUE
  /\ tx_log = <<>>
  /\ tx_frames = <<>>
  /\ tx_lost = {}
  /\ rtt_log = <<>>
  /\ l_outcome = "none"
  /\ last_seq = -1
  /\ total_received = 0
  /\ total_bytes = 0
  /\ total_lost_frames = 0
  /\ log_buffer = <<>>
  /\ latest_rtt = <<>>
  /\ receiver_last_seq = 0
  /\ receiver_received = 0
  /\ receiver_lost = 0
  /\ running = TRUE
  /\ t_pc = "check"
  /\ fb_chan = {}
  /\ wall = 0
  /\ d_in = <<>>
  /\ fb_sent = <<>>
  /\ t_in = <<>>
  /\ fb_calls = <<>>
  /\ c_pc = "open"
  /\ c_wait = 0
  /\ k_pc = "open"
  /\ k_wait = 0
  /\ frame_count = 0
  /\ total_sent = 0
  /\ sender_total_bytes = 0
  /\ sender_lost_frames = 0
  /\ latest_loss_rate = [num |-> 0, den |-> 1]
  /\ sent_packet_info = <<>>
  /\ sender_log_buffer = <<>>

\* The receiver under an adversarial network.
Next == Deliver \/ InterruptInLoop \/ InterruptInRecv

Spec == Init /\ [][Next]_vars

\* The receiver fed the two ends of many frames.
NextLag == DeliverEnds \/ InterruptInLoop \/ InterruptInRecv

SpecLag == Init /\ [][NextLag]_vars

\* Sender, in-order lossless data channel, receiver.
NextPipe == Feed \/ SendJson \/ SendChunk \/ SendFrameEnd \/ PipeRecv

SpecPipe == Init /\ [][NextPipe]_vars

\* The sender's two threads under an adversarial ack channel.
NextAck ==
  \/ FeedSmall \/ SendJson \/ SendChunk \/ SendFrameEnd
  \/ MainClose \/ CloseJoin \/ CloseSockets
  \/ InjectAck \/ AckEnter \/ AckRecv \/ AckAgain \/ AckTest \/ AckPop \/ AckAppend
  \/ AckStop \/ Tick

SpecAck == Init /\ [][NextAck]_vars

\* The same, the pacing thread always getting to run; nothing is assumed of
\* the ack channel or of the listener thread.
PacingStep == FeedSmall \/ SendJson \/ SendChunk \/ SendFrameEnd \/ MainClose

SpecAckFair == Init /\ [][NextAck]_vars /\ WF_vars(PacingStep)

\* The sequence detector under an adversarial GStreamer pipeline.
NextSeq == GstDeliver

SpecSeq == Init /\ [][NextSeq]_vars

\* RTTTracker on a feedback port open to any traffic.
NextFb ==
  \/ InjectFeedback
  \/ ListenCheck \/ ListenRecv \/ ListenTimeout \/ WallTick
  \/ TrackerStop \/ TrackerJoin \/ TrackerCloseSocket

SpecFb == Init /\ [][NextFb]_vars

\* The receiver on a DISH socket that any peer can send to.
NextRaw == Deliver \/ DeliverMalformed

SpecRaw == Init /\ [][NextRaw]_vars

\* The receiver fed chunks with payloads cut short.
NextCut == DeliverCut \/ InterruptInLoop \/ InterruptInRecv

SpecCut == Init /\ [][NextCut]_vars

\* The pacing thread sending .json files while the listener thread handles
\* the acks the channel hands it.
NextRace ==
  \/ FeedJson \/ SendJson \/ SendFrameEnd
  \/ InjectAck \/ AckEnter \/ AckRecv \/ AckAgain \/ AckTest \/ AckPop \/ AckAppend

SpecRace == Init /\ [][NextRace]_vars

\* The receiver's feedback for a packet that was sent reaches the feedback
\* port: the packet's sequence, a send time not in the future, and counters
\* the receiver can hold once it has accepted that packet.  UDP may deliver
\* the datagram again.
FeedbackArrives ==
  /\ Cardinality(fb_chan) < MaxDatagrams
  /\ Len(fb_calls) < MaxCalls
  /\ \E q \in 0..(frame_count - 1), ts \in 0..wall :
       \E received \in 1..(q + 1) :
         fb_chan' = fb_chan \cup {FeedbackDatagram(ts, q, received, q + 1 - received)}
  /\ fb_chan' # fb_chan
  /\ UNCHANGED <<pvars, jvars, dvars, tvars, wall, rvars, svars, lvars, data_chan,
                 ack_chan, now>>

\* main_send: packets go out, their feedback comes back on a network that
\* may lose, delay or repeat a datagram.
NextStat ==
  \/ SendPacket \/ FeedbackArrives
  \/ ListenCheck \/ ListenRecv \/ ListenTimeout \/ WallTick

SpecStat == Init /\ [][NextStat]_vars

\* main_udp end to end: the pacing loop, the UDP data channel, the receiver,
\* the TCP ack channel and the ack listener.  The folder holds MaxFrames
\* small files, .pcd files of two chunks and .json files in turn.  A
\* datagram on the data channel may be lost, overtaken, or delivered more
\* than once; the ack channel keeps order and loses nothing.
FeedLoop ==
  IF frame_id % 2 = 0
  THEN SendFrameStart("pcd_data", Cloud(frame_id, POINTS_PER_CHUNK + 1, FALSE))
  ELSE SendFrameStart("json_data", <<7>>)

WithoutAt(s, i) == [j \in 1..(Len(s) - 1) |-> IF j < i THEN s[j] ELSE s[j + 1]]

NetDeliver ==
  /\ \E i \in 1..Len(data_chan), again \in BOOLEAN, ack_ok \in BOOLEAN :
       /\ Receive(data_chan[i], ack_ok)
       /\ data_chan' = IF again THEN data_chan ELSE WithoutAt(data_chan, i)
  /\ UNCHANGED <<pvars, jvars, gvars, svars, lvars, now>>

NetLose ==
  /\ \E i \in 1..Len(data_chan) : data_chan' = WithoutAt(data_chan, i)
  /\ UNCHANGED <<pvars, jvars, gvars, rvars, svars, lvars, ack_chan, now>>

NextLoop ==
  \/ FeedLoop \/ SendJson \/ SendChunk \/ SendFrameEnd
  \/ NetDeliver \/ NetLose
  \/ AckEnter \/ AckRecv \/ AckAgain \/ AckTest \/ AckPop \/ AckAppend

SpecLoop == Init /\ [][NextLoop]_vars

\* Either program from its start to the end of its shutdown: main_udp with
\* its LidarSender, or main_send with its RTTTracker.  The two never run in
\* one process; whichever takes the first step runs alone.
TrackerUnused ==
  /\ t_pc = "check" /\ running /\ k_pc = "open" /\ k_wait = 0
  /\ fb_chan = {} /\ t_in = <<>> /\ fb_calls = <<>> /\ wall = 0

SenderUnused ==
  /\ s_pc = "idle" /\ frame_id = 0 /\ c_pc = "open" /\ c_wait = 0
  /\ l_pc = "loop" /\ ack_chan = <<>> /\ now = 0

NextShutdown ==
  \/ TrackerUnused /\ NextAck
  \/ SenderUnused /\ NextFb

SpecShutdown == Init /\ [][NextShutdown]_vars

\* The receiver that is never interrupted: run()'s loop takes every message
\* the network hands it.
NextLive == Deliver

SpecLive == Init /\ [][NextLive]_vars /\ WF_vars(Deliver)

\* ================================================================ properties
Finalized == {emitted[i] : i \in 1..Len(emitted)}

\* The message of this step, if this step processes one.
MsgNow == rx_in'[1]

IsPcd(m) == m.frag_info # <<>>

\* The acks pushed during this step.
AcksNow == {ack_chan'[j].ack_frame_id : j \in (Len(ack_chan) + 1)..Len(ack_chan')}

\* ---- C2 (as stated): forward progress.  Once a chunk of frame f has been
\* delivered and f is below current_collecting_fid (a chunk of a newer frame
\* N has been processed while N > current_collecting_fid), frame f is
\* finalized at some point.
C2_DeliveredOlderFrameEventuallyFinalized ==
  \A f \in 0..MaxFrameId :
     [](((rx_in # <<>>) /\ (rx_in[1].frame_id = f) /\ (f < current_collecting_fid))
          => <>(f \in Finalized))

\* ---- C2 (amended): when a chunk of frame N is processed while
\* N > current_collecting_fid, every frame with id < N that holds an entry
\* in reassembly_buffer is finalized during that step: it is emitted
\* (possibly partial), send_ack is called for it (the ack is on the ack
\* channel unless the send raised), and no entry below N stays buffered.
C2_BufferedOlderFramesFinalized ==
  [][((rx_in' # <<>>) /\ (MsgNow.frame_id > current_collecting_fid))
       => /\ \A f \in KeySet(reassembly_buffer) :
               (f < MsgNow.frame_id) =>
                  \E i \in 1..Len(rx_out') :
                     /\ rx_out'[i].ev.frame_id = f
                     /\ rx_out'[i].acked => (f \in AcksNow)
          /\ \A f \in KeySet(reassembly_buffer') : f >= MsgNow.frame_id
          /\ current_collecting_fid' = MsgNow.frame_id]_vars

\* A chunk of a newer frame has just flushed an older, incomplete frame.
C2_OlderFrameFlushed ==
  /\ rx_in # <<>>
  /\ rx_out # <<>>
  /\ rx_out[1].ev.frame_id < rx_in[1].frame_id
  /\ rx_out[1].ev.type = "pcd"
  /\ ~rx_out[1].ev.complete
  /\ rx_out[1].acked

\* ---- C3: staleness rejection.  Once frame k has been finalized,
\* processing a message with frame_id <= k changes none of
\* reassembly_buffer, current_collecting_fid, last_processed_fid, emits
\* nothing and sends no ack.
C3_StaleMessageIsNoOp ==
  [][\A k \in Finalized :
       ((r_pc' = "loop") /\ (rx_in' # <<>>) /\ (MsgNow.frame_id <= k))
         => /\ reassembly_buffer' = reassembly_buffer
            /\ current_collecting_fid' = current_collecting_fid
            /\ last_processed_fid' = last_processed_fid
            /\ rx_out' = <<>>
            /\ emitted' = emitted
            /\ ack_chan' = ack_chan]_vars

\* A message of an already finalized frame has just been processed.
C3_StaleMessageProcessed ==
  /\ rx_in # <<>>
  /\ rx_in[1].frame_id \in Finalized
  /\ rx_out = <<>>
  /\ r_pc = "loop"

\* ---- C4: monotonicity.  last_processed_fid never decreases, whatever is
\* received and whichever way frames are finalized (next-frame trigger,
\* marker trigger, overflow eviction, shutdown flush).
C4_LastProcessedNeverDecreases ==
  [][last_processed_fid' >= last_processed_fid]_vars

\* The shutdown flush has finalized a frame after an earlier finalization.
C4_FlushedAfterEarlierFrame ==
  /\ r_pc = "closed"
  /\ rx_out # <<>>
  /\ Len(emitted) >= 2
  /\ last_processed_fid = emitted[Len(emitted)]

\* ---- C6: idempotent chunk insertion.  When a chunk arrives for a
\* (frame_id, chunk_index) already stored for the frame being collected,
\* the stored bytes of that index stay those of the first delivery and the
\* number of received chunks of the frame does not change, whether the frame
\* stays buffered or is finalized by this chunk.
C6_FirstWriteWins ==
  [][\A f \in KeySet(reassembly_buffer) :
       LET old == DictGet(reassembly_buffer, f)
       IN ((rx_in' # <<>>) /\ (r_pc' = "loop") /\ (MsgNow.frame_id = f) /\ IsPcd(MsgNow)
            /\ (old.type = "pcd")
            /\ (MsgNow.frag_info[1].chunk_index \in DOMAIN old.chunks))
          => IF DictHas(reassembly_buffer', f)
             THEN DictGet(reassembly_buffer', f).chunks = old.chunks
             ELSE \E i \in 1..Len(rx_out') :
                    /\ rx_out'[i].ev.frame_id = f
                    /\ rx_out'[i].ev.chunks = old.chunks
                    /\ rx_out'[i].ev.received_chunks = Cardinality(DOMAIN old.chunks)]_vars

\* A second chunk for a stored index, with other bytes, has been processed.
C6_SecondDeliveryOtherBytes ==
  /\ rx_in # <<>>
  /\ IsPcd(rx_in[1])
  /\ DictHas(reassembly_buffer, rx_in[1].frame_id)
  /\ LET e == DictGet(reassembly_buffer, rx_in[1].frame_id)
         idx == rx_in[1].frag_info[1].chunk_index
     IN /\ e.type = "pcd"
        /\ idx \in DOMAIN e.chunks
        /\ e.chunks[idx] # rx_in[1].pcd_chunk_bytes

\* The stored chunks in ascending chunk_index order, missing indices skipped.
RECURSIVE ConcatFrom(_, _, _)
ConcatFrom(chunks, i, top) ==
  IF i > top THEN <<>>
  ELSE (IF i \in DOMAIN chunks THEN chunks[i] ELSE <<>>) \o ConcatFrom(chunks, i + 1, top)

AscendingConcat(chunks) ==
  IF DOMAIN chunks = {} THEN <<>>
  ELSE ConcatFrom(chunks, 0, CHOOSE m \in DOMAIN chunks : \A y \in DOMAIN chunks : y <= m)

\* ---- C7: graceful degradation on a gap.  A finalized point-cloud frame
\* carries exactly the chunks received for it; its payload is their
\* concatenation in ascending chunk_index order with missing indices
\* skipped, received_chunks is the number of distinct indices received,
\* total_chunks is the value declared by the first chunk stored, and the
\* frame is reported incomplete when indices below total_chunks are missing.
C7_GapIsSkipped ==
  [][\A i \in 1..Len(rx_out') :
       LET ev == rx_out'[i].ev
           f == ev.frame_id
           held == DictHas(reassembly_buffer, f)
           pre == IF held THEN DictGet(reassembly_buffer, f).chunks ELSE <<>>
           mine == (rx_in' # <<>>) /\ (MsgNow.frame_id = f) /\ IsPcd(MsgNow)
       IN (ev.type = "pcd") =>
            /\ \A x \in DOMAIN pre : (x \in DOMAIN ev.chunks) /\ (ev.chunks[x] = pre[x])
            /\ \A x \in DOMAIN ev.chunks :
                 (x \in DOMAIN pre)
                 \/ (mine /\ (x = MsgNow.frag_info[1].chunk_index)
                          /\ (ev.chunks[x] = MsgNow.pcd_chunk_bytes))
            /\ ev.payload = AscendingConcat(ev.chunks)
            /\ ev.received_chunks = Cardinality(DOMAIN ev.chunks)
            /\ ev.total_chunks = (IF held THEN DictGet(reassembly_buffer, f).total
                                  ELSE MsgNow.frag_info[1].total_chunks)
            /\ ((DOMAIN ev.chunks \subseteq 0..(ev.total_chunks - 1))
                /\ (DOMAIN ev.chunks # 0..(ev.total_chunks - 1)))
               => ~ev.complete]_vars

\* A frame with chunks before and after a missing index has been finalized.
C7_FrameWithGapFinalized ==
  /\ rx_in # <<>>
  /\ rx_out # <<>>
  /\ rx_out[1].ev.type = "pcd"
  /\ DOMAIN rx_out[1].ev.chunks = {0, MaxChunks - 1}
  /\ rx_out[1].ev.total_chunks = MaxChunks
  /\ rx_out[1].ev.chunks[0] # rx_out[1].ev.chunks[MaxChunks - 1]
  /\ ~rx_out[1].ev.complete

\* ---- C5: overflow bound.  After the receiver has finished processing any
\* message, reassembly_buffer holds at most MAX_FRAME_LAG entries, whatever
\* the delivery sequence.
C5_BufferWithinLag == Len(reassembly_buffer) <= MAX_FRAME_LAG

\* Chunks of more than MAX_FRAME_LAG frames have come, out of order, and a
\* frame beyond the lag is being collected.
C5_ManyFramesSeen ==
  /\ rx_in # <<>>
  /\ ~rx_in_order
  /\ current_collecting_fid > MAX_FRAME_LAG
  /\ Len(emitted) >= MAX_FRAME_LAG
  /\ reassembly_buffer # <<>>

\* ---- C8: eviction order.  With first chunks (none terminal) of frames
\* 0, 1, ..., MAX_FRAME_LAG + 1 delivered in that order, once the last one is
\* processed the buffer holds at most MAX_FRAME_LAG entries and frame 0 was
\* the first frame removed.  In general every removal from the buffer, an
\* overflow eviction included, takes the entry with the smallest frame_id
\* then buffered and finalizes it with the chunks it has.
C8_SmallestRemovedFirst ==
  [][/\ Len(reassembly_buffer') <= MAX_FRAME_LAG
     /\ (rx_in_order' /\ (current_collecting_fid' = MAX_FRAME_LAG + 1))
          => /\ emitted' # <<>>
             /\ emitted'[1] = 0
     /\ \A i \in 1..Len(rx_out') :
          LET f == rx_out'[i].ev.frame_id
              gone == {rx_out'[j].ev.frame_id : j \in 1..(i - 1)}
              held == (KeySet(reassembly_buffer)
                         \cup (IF rx_in' # <<>> THEN {MsgNow.frame_id} ELSE {})) \ gone
          IN /\ f \in held
             /\ \A g \in held : f <= g
             /\ (DictHas(reassembly_buffer, f) /\ ((rx_in' = <<>>) \/ (MsgNow.frame_id # f)))
                  => rx_out'[i].ev.chunks = DictGet(reassembly_buffer, f).chunks]_vars

\* The first chunks of frames 0..MAX_FRAME_LAG + 1 have been processed in
\* order.
C8_LagScenarioDone ==
  /\ rx_in_order
  /\ r_pc = "loop"
  /\ current_collecting_fid = MAX_FRAME_LAG + 1
  /\ KeySet(reassembly_buffer) = {MAX_FRAME_LAG + 1}

\* The rows handed to send_frame for frame f: the points, with the intensity
\* as fourth column when there is one.
OriginalRows(f) ==
  LET p == tx_frames[f + 1].data_payload
  IN [r \in 1..Len(p.points) |->
        IF p.intensities # <<>> THEN p.points[r] \o <<p.intensities[1][r]>>
        ELSE p.points[r]]

\* The words of rows, row after row.
RowMajor(rows) ==
  IF rows = <<>> THEN <<>>
  ELSE LET dim == Len(rows[1])
       IN [k \in 1..(Len(rows) * dim) |-> rows[((k - 1) \div dim) + 1][((k - 1) % dim) + 1]]

\* ---- C1: round trip.  A point-cloud frame of N > 0 rows whose chunks all
\* reach the receiver in index order, none lost, none duplicated, is
\* finalized with the concatenated bytes equal to the original rows, the
\* array reshaped to those rows, received_chunks = total_chunks, complete.
C1_RoundTrip ==
  \A i \in 1..Len(rx_out) :
     LET ev == rx_out[i].ev
     IN ((ev.type = "pcd") /\ (ev.frame_id \notin tx_lost))
          => /\ ev.payload = RowMajor(OriginalRows(ev.frame_id))
             /\ ev.reshaped
             /\ ev.final_array = OriginalRows(ev.frame_id)
             /\ Len(ev.final_array) > 0
             /\ ev.received_chunks = ev.total_chunks
             /\ ev.complete

\* A frame of several chunks, with intensities, has made the round trip.
C1_MultiChunkFrameArrived ==
  \E i \in 1..Len(rx_out) :
     /\ rx_out[i].ev.type = "pcd"
     /\ rx_out[i].ev.frame_id \notin tx_lost
     /\ rx_out[i].ev.total_chunks >= 2
     /\ rx_out[i].ev.complete
     /\ Len(rx_out[i].ev.final_array) > POINTS_PER_CHUNK
     /\ Len(rx_out[i].ev.final_array[1]) = 4

\* ceil(n / p)
CeilDiv(n, p) == CHOOSE k \in 0..n : (k * p >= n) /\ ((k - 1) * p < n)

\* ---- C10: chunk numbering.  For a point-cloud frame of N > 0 rows,
\* send_frame hands to the socket exactly ceil(N / POINTS_PER_CHUNK) chunks,
\* with chunk_index 0, 1, ..., total_chunks - 1 in that order, each with the
\* frame's frame_id and the same total_chunks, chunk_index < total_chunks,
\* and marker set on the chunk of the highest chunk_index and on no other.
C10_ChunkNumbering ==
  ((tx_frames # <<>>)
     /\ (tx_frames[Len(tx_frames)].data_key = "pcd_data")
     /\ (Len(tx_frames[Len(tx_frames)].data_payload.points) > 0))
  => LET call == tx_frames[Len(tx_frames)]
         total == CeilDiv(Len(call.data_payload.points), POINTS_PER_CHUNK)
     IN /\ Len(tx_log) <= total
        /\ (s_pc \in {"incr", "idle"}) => (Len(tx_log) = total)
        /\ \A j \in 1..Len(tx_log) :
             /\ tx_log[j].frame_id = call.frame_id
             /\ IsPcd(tx_log[j])
             /\ tx_log[j].frag_info[1].chunk_index = j - 1
             /\ tx_log[j].frag_info[1].total_chunks = total
             /\ tx_log[j].frag_info[1].chunk_index < total
             /\ tx_log[j].marker = (j = total)

\* send_frame has gone through the loop for a frame of several chunks, the
\* last of them shorter than POINTS_PER_CHUNK.
C10_SeveralChunksSent ==
  /\ s_pc = "incr"
  /\ tx_frames # <<>>
  /\ tx_frames[Len(tx_frames)].data_key = "pcd_data"
  /\ Len(tx_log) >= 2
  /\ Len(tx_frames[Len(tx_frames)].data_payload.points) % POINTS_PER_CHUNK # 0

\* ---- C9: at-most-once ack consumption.  An ack for a frame_id present in
\* sent_timestamps makes the listener remove that entry, and only that one,
\* and record one RTT sample; an ack for a frame_id absent from
\* sent_timestamps (never sent, or already consumed) changes neither
\* sent_timestamps nor rtt_records_ms; no frame is sampled twice.
C9_AckConsumedAtMostOnce ==
  [][/\ ((l_pc = "test") /\ (l_pc' # "test"))
          => /\ l_pc' = (IF DictHas(sent_timestamps, l_ack) THEN "pop" ELSE "loop")
             /\ sent_timestamps' = sent_timestamps
             /\ rtt_records_ms' = rtt_records_ms
     /\ ((l_pc = "pop") /\ (l_pc' # "pop"))
          => /\ l_pc' = "append"
             /\ DictHas(sent_timestamps, l_ack)
             /\ KeySet(sent_timestamps') = KeySet(sent_timestamps) \ {l_ack}
             /\ rtt_records_ms' = rtt_records_ms
     /\ ((l_pc = "append") /\ (l_pc' # "append"))
          => /\ l_pc' = "loop"
             /\ Len(rtt_records_ms') = Len(rtt_records_ms) + 1
             /\ sent_timestamps' = sent_timestamps
     /\ (rtt_records_ms' # rtt_records_ms) => (l_pc = "append")
     /\ (KeySet(sent_timestamps) \ KeySet(sent_timestamps') # {}) => (l_pc = "pop")
     /\ \A i, j \in 1..Len(rtt_log') :
          (rtt_log'[i].frame_id = rtt_log'[j].frame_id) => (i = j)]_vars

\* A second ack for a frame already sampled has been ignored.
C9_SecondAckIgnored ==
  /\ l_pc = "loop"
  /\ l_outcome = "ignored"
  /\ \E i \in 1..Len(rtt_log) : rtt_log[i].frame_id = l_ack
  /\ ~DictHas(sent_timestamps, l_ack)
  /\ Len(rtt_records_ms) = 1

\* The rows a chunk message carries, decoded by the width it declares.
ChunkRows(m) ==
  LET dim == m.frag_info[1].shape[2]
  IN [r \in 1..(Len(m.pcd_chunk_bytes) \div dim) |->
        SubSeq(m.pcd_chunk_bytes, (r - 1) * dim + 1, r * dim)]

\* The rows carried by the messages of log, in the order they were sent.
RECURSIVE RowsSent(_)
RowsSent(log) ==
  IF log = <<>> THEN <<>>
  ELSE RowsSent(SubSeq(log, 1, Len(log) - 1)) \o ChunkRows(log[Len(log)])

\* ---- C11: fragmenter partition.  The row slices carried by the chunks of
\* one frame are contiguous and in row order (sent one after the other they
\* are a prefix of the frame's rows, so no row is skipped and none repeated),
\* each holds between 1 and POINTS_PER_CHUNK rows, and once the loop is over
\* they are all the rows of the frame.
C11_SlicesPartitionRows ==
  ((tx_frames # <<>>)
     /\ (tx_frames[Len(tx_frames)].data_key = "pcd_data")
     /\ (Len(tx_frames[Len(tx_frames)].data_payload.points) > 0))
  => LET rows == OriginalRows(tx_frames[Len(tx_frames)].frame_id)
         sent == RowsSent(tx_log)
     IN /\ \A j \in 1..Len(tx_log) :
             /\ Len(ChunkRows(tx_log[j])) >= 1
             /\ Len(ChunkRows(tx_log[j])) <= POINTS_PER_CHUNK
             /\ Len(ChunkRows(tx_log[j])) = tx_log[j].frag_info[1].shape[1]
             /\ Len(tx_log[j].pcd_chunk_bytes)
                  = Len(ChunkRows(tx_log[j])) * tx_log[j].frag_info[1].shape[2]
        /\ Len(sent) <= Len(rows)
        /\ sent = SubSeq(rows, 1, Len(sent))
        /\ \A a, b \in 1..Len(rows) : (rows[a] = rows[b]) => (a = b)
        /\ (s_pc \in {"incr", "idle"}) => (sent = rows)

\* send_frame has sent a frame with intensities as full chunks and a
\* shorter last one.
C11_FullAndShortSlicesSent ==
  /\ s_pc = "incr"
  /\ tx_frames # <<>>
  /\ tx_frames[Len(tx_frames)].data_key = "pcd_data"
  /\ tx_frames[Len(tx_frames)].data_payload.intensities # <<>>
  /\ Len(tx_log) >= 2
  /\ tx_log[1].frag_info[1].shape[1] = POINTS_PER_CHUNK
  /\ tx_log[Len(tx_log)].frag_info[1].shape[1] < POINTS_PER_CHUNK

\* The send_frame call in progress, or the latest one.
LastCall == tx_frames[Len(tx_frames)]

\* ---- C12 (as stated): a JSON payload is sent as exactly one message per
\* frame, with marker = true and declaring total_chunks = 1.
C12_JsonIsOneChunkOfOne ==
  ((tx_frames # <<>>) /\ (LastCall.data_key = "json_data")
     /\ (s_pc \in {"incr", "idle", "raised"}))
  => /\ Len(tx_log) = 1
     /\ tx_log[1].frame_id = LastCall.frame_id
     /\ tx_log[1].json_data = LastCall.data_payload
     /\ tx_log[1].marker
     /\ tx_log[1].frag_info # <<>>
     /\ tx_log[1].frag_info[1].total_chunks = 1

\* ---- C13 (as stated): send_frame of a point cloud with zero rows sends no
\* chunk, consumes no frame_id and leaves no entry in sent_timestamps.
C13_EmptyFrameLeavesNothing ==
  ((tx_frames # <<>>) /\ (LastCall.data_key = "pcd_data")
     /\ (Len(LastCall.data_payload.points) = 0))
  => /\ tx_log = <<>>
     /\ frame_id = LastCall.frame_id
     /\ ~DictHas(sent_timestamps, LastCall.frame_id)

\* ---- C14: producer frame ids.  The frame_id of the first send_frame call
\* is 0 and each later call uses a frame_id greater than that of the call
\* before it, so no two calls share one, also after a chunk send that
\* raised; every message of a call carries the call's frame_id.
C14_FrameIdsStrictlyIncrease ==
  /\ (tx_frames # <<>>) => (tx_frames[1].frame_id = 0)
  /\ \A i \in 1..Len(tx_frames) : \A j \in 1..Len(tx_frames) :
        (i < j) => (tx_frames[i].frame_id < tx_frames[j].frame_id)
  /\ \A j \in 1..Len(tx_log) : tx_log[j].frame_id = LastCall.frame_id
  /\ \A i \in 1..Len(data_chan) : \A j \in 1..Len(data_chan) :
        (i < j) => (data_chan[i].frame_id <= data_chan[j].frame_id)

\* send_frame has been called again after a call in which a chunk send
\* raised.
C14_CallAfterFailedChunk ==
  /\ Len(tx_frames) >= 2
  /\ tx_frames[1].data_key = "pcd_data"
  /\ tx_frames[1].frame_id \in tx_lost
  /\ tx_log # <<>>

\* Statements k..k+3 of trace tr finalize frame f: pop, emit, ack (sent or
\* failed), mark.
FinalizeRun(tr, k, f, acked) ==
  /\ tr[k] = [op |-> "pop", fid |-> f]
  /\ tr[k + 1] = [op |-> "emit", fid |-> f]
  /\ tr[k + 2] = [op |-> (IF acked THEN "ack" ELSE "ack_failed"), fid |-> f]
  /\ tr[k + 3] = [op |-> "mark", fid |-> f]

RECURSIVE MaxOfSeq(_, _)
MaxOfSeq(q, least) ==
  IF q = <<>> THEN least
  ELSE LET m == MaxOfSeq(Tail(q), least) IN IF Head(q) >= m THEN Head(q) ELSE m

\* ---- C15: finalization.  Every entry removed from the buffer is emitted,
\* also when received_chunks < total_chunks; for each frame finalized the
\* receiver pops the entry, emits the frame, calls send_ack once (exactly
\* one ack with that frame_id goes out, none when the send raises), then
\* sets last_processed_fid = max(last_processed_fid, frame_id) whether or
\* not the ack went out; the entry is no longer in the buffer.
C15_FinalizeEmitsAcksMarks ==
  [][/\ \A f \in KeySet(reassembly_buffer) \ KeySet(reassembly_buffer') :
          \E i \in 1..Len(rx_out') : rx_out'[i].ev.frame_id = f
     /\ \A i \in 1..Len(rx_out') :
          LET f == rx_out'[i].ev.frame_id
              acked == rx_out'[i].acked
          IN /\ ~DictHas(reassembly_buffer', f)
             /\ \E k \in 1..(Len(rx_trace') - 3) : FinalizeRun(rx_trace', k, f, acked)
             /\ Cardinality({k \in 1..Len(rx_trace') :
                               (rx_trace'[k].fid = f)
                               /\ (rx_trace'[k].op \in {"pop", "emit", "ack", "ack_failed",
                                                        "mark"})}) = 4
             /\ Cardinality({j \in (Len(ack_chan) + 1)..Len(ack_chan') :
                               ack_chan'[j].ack_frame_id = f}) = (IF acked THEN 1 ELSE 0)
             /\ last_processed_fid' >= f
     /\ Len(ack_chan') <= Len(ack_chan) + Len(rx_out')
     /\ last_processed_fid' = MaxOfSeq(EventIds(rx_out'), last_processed_fid)]_vars

\* An incomplete frame has been finalized while the ack send raised.
C15_PartialFrameAckFailed ==
  /\ rx_out # <<>>
  /\ rx_out[1].ev.type = "pcd"
  /\ ~rx_out[1].ev.complete
  /\ ~rx_out[1].acked
  /\ last_processed_fid = rx_out[1].ev.frame_id
  /\ r_pc = "loop"

\* The positions of trace tr before position c at which an entry is popped.
PopsBefore(tr, c) == {k \in 1..(c - 1) : tr[k].op = "pop"}

\* ---- C20: next-frame trigger.  When a non-stale chunk c with
\* c.frame_id > current_collecting_fid is processed, the receiver first
\* finalizes the frame being collected if it is buffered, then every other
\* buffered entry with frame_id < c.frame_id in ascending frame_id order,
\* then sets current_collecting_fid = c.frame_id and only then stores c;
\* afterwards no entry with frame_id < c.frame_id is in the buffer.
C20_FlushThenCollectThenStore ==
  [][((rx_in' # <<>>) /\ (r_pc' = "loop")
        /\ (MsgNow.frame_id > last_processed_fid)
        /\ (MsgNow.frame_id > current_collecting_fid))
       => LET tr == rx_trace'
              n == MsgNow.frame_id
              older == {f \in KeySet(reassembly_buffer) : f < n}
          IN \E c \in 1..Len(tr) :
               /\ tr[c] = [op |-> "collect", fid |-> n]
               /\ \A k \in 1..Len(tr) : (tr[k].op = "collect") => (k = c)
               /\ {tr[k].fid : k \in PopsBefore(tr, c)} = older
               /\ Cardinality(PopsBefore(tr, c)) = Cardinality(older)
               /\ \A k \in PopsBefore(tr, c) :
                    \E acked \in BOOLEAN : FinalizeRun(tr, k, tr[k].fid, acked) /\ (k + 3 < c)
               /\ DictHas(reassembly_buffer, current_collecting_fid)
                    => (tr[1] = [op |-> "pop", fid |-> current_collecting_fid])
               /\ \A j, k \in PopsBefore(tr, c) :
                    ((j < k) /\ (tr[j].fid # current_collecting_fid)) => (tr[j].fid < tr[k].fid)
               /\ c < Len(tr)
               /\ tr[c + 1] = [op |-> "store", fid |-> n]
               /\ \A k \in 1..Len(tr) : (tr[k].op = "store") => (k = c + 1)
               /\ current_collecting_fid' = n
               /\ \A f \in KeySet(reassembly_buffer') : f >= n]_vars

\* A terminal chunk of a newer frame has flushed the frame being collected
\* and then finalized its own frame.
C20_OlderFlushedThenOwnFrame ==
  /\ rx_in # <<>>
  /\ Len(rx_out) = 2
  /\ rx_out[1].ev.frame_id < rx_out[2].ev.frame_id
  /\ rx_out[2].ev.frame_id = rx_in[1].frame_id
  /\ Len(rx_trace) = 10

SampledFrames == {rtt_log[i].frame_id : i \in 1..Len(rtt_log)}

\* ---- C16: a lost ack never stalls the producer.  Whether or not any ack
\* arrives, the pacing loop comes to its end, and unless a send raised out
\* of send_frame it has then sent every frame of the feeder; each frame sent
\* either still has its entry in sent_timestamps (no ack consumed for it) or
\* has given one RTT sample, never both.
C16_PacingLoopEndsWithoutAcks ==
  /\ <>(s_pc = "closed")
  /\ []((s_pc = "closed" /\ frame_id = Len(tx_frames))
          => (Len(tx_frames) = MaxAckFrames))
  /\ [](\A i \in 1..Len(tx_frames) :
          LET f == tx_frames[i].frame_id
              pending == DictHas(sent_timestamps, f)
              popped == (l_pc = "append") /\ (l_ack = f)
              sampled == f \in SampledFrames
          IN /\ pending \/ popped \/ sampled
             /\ ~(pending /\ popped) /\ ~(pending /\ sampled) /\ ~(popped /\ sampled))
  /\ [](Len(rtt_records_ms) = Cardinality(SampledFrames))

\* The loop has ended, every frame sent, no ack ever consumed: every frame
\* still has its entry in sent_timestamps and there is no RTT sample.
C16_EndedWithNoAck ==
  /\ s_pc = "closed"
  /\ frame_id = MaxAckFrames
  /\ Len(sent_timestamps) = MaxAckFrames
  /\ rtt_records_ms = <<>>
  /\ l_outcome = "none"

\* The packet on_packet_received is handling in this step.
PktNow == d_in'[1]

\* C17: a packet whose sequence s <= last_seq is discarded: last_seq,
\* total_received, total_bytes and total_lost_frames keep their values, no
\* feedback datagram is built and none is put on the wire.
C17_DuplicateChangesNothing ==
  [][ (d_in' # <<>> /\ PktNow.sequence <= last_seq)
      => /\ last_seq' = last_seq
         /\ total_received' = total_received
         /\ total_bytes' = total_bytes
         /\ total_lost_frames' = total_lost_frames
         /\ fb_sent' = fb_sent
         /\ fb_chan' = fb_chan ]_vars

\* C17 witness: after two packets were accepted, the packet handled last
\* carried an older sequence number.
C17_OlderPacketAfterTwoAccepted ==
  /\ total_received >= 2
  /\ d_in # <<>>
  /\ d_in[1].sequence < last_seq

\* C18: last_seq starts at -1; when a packet with sequence s > last_seq is
\* accepted, last_seq becomes s, and total_lost_frames grows by s - last_seq - 1
\* if s > last_seq + 1 and by nothing if s = last_seq + 1.
C18_GapAddedToLostFrames ==
  /\ last_seq = -1
  /\ [][ (d_in' # <<>> /\ PktNow.sequence > last_seq)
         => /\ last_seq' = PktNow.sequence
            /\ PktNow.sequence > last_seq + 1
                 => total_lost_frames' =
                      total_lost_frames + PktNow.sequence - last_seq - 1
            /\ PktNow.sequence = last_seq + 1
                 => total_lost_frames' = total_lost_frames ]_vars

\* C18 witness: the first packet accepted was not packet 0 (a gap counted from
\* last_seq = -1), the second was its successor, a third came after a gap.
C18_GapThenSuccessorThenGap ==
  /\ Len(log_buffer) >= 3
  /\ log_buffer[1].seq > 0
  /\ log_buffer[2].seq = log_buffer[1].seq + 1
  /\ log_buffer[3].seq > log_buffer[2].seq + 1
  /\ last_seq = log_buffer[3].seq

\* The datagram the listener's recvfrom returned in this step.
DgramNow == t_in'[1]

\* C19: when the listener receives a datagram shorter than FEEDBACK_SIZE or
\* whose magic is not MAGIC, latest_rtt, receiver_last_seq, receiver_received
\* and receiver_lost keep their values, on_feedback is not called, and the
\* listener goes on to the next test of its loop, running as it was.
C19_MalformedFeedbackDiscarded ==
  [][ (t_pc = "recv" /\ t_pc' # "recv" /\ t_in' # <<>>
       /\ (DgramNow.len < FEEDBACK_SIZE \/ DgramNow.magic # MAGIC))
      => /\ latest_rtt' = latest_rtt
         /\ receiver_last_seq' = receiver_last_seq
         /\ receiver_received' = receiver_received
         /\ receiver_lost' = receiver_lost
         /\ fb_calls' = fb_calls
         /\ running' = running
         /\ t_pc' = "check" ]_vars

\* C19 witness: a genuine feedback message was processed, then the listener
\* received a full-size datagram with a foreign magic, and is still running.
C19_ForeignMagicAfterFeedback ==
  /\ fb_calls # <<>>
  /\ t_in # <<>>
  /\ t_in[1].len >= FEEDBACK_SIZE
  /\ t_in[1].magic # MAGIC
  /\ t_pc = "check"
  /\ running

\* ---- C21: marker trigger.  When a non-stale terminal chunk of the frame
\* being collected (or of a newer frame, which thereby becomes the frame
\* being collected) is processed, the chunk is stored (first write wins: its
\* index is in the frame's chunks, with its bytes unless the index was there
\* already) and the frame is finalized as the last thing done for that same
\* message, complete or not; current_collecting_fid is that frame_id
\* afterwards and last_processed_fid has reached it, so that later chunks of
\* the frame are stale.
C21_MarkerFinalizesAtOnce ==
  [][((rx_in' # <<>>) /\ (r_pc' = "loop") /\ IsPcd(MsgNow) /\ MsgNow.marker
        /\ (MsgNow.frame_id > last_processed_fid)
        /\ (MsgNow.frame_id >= current_collecting_fid))
       => LET tr == rx_trace'
              n == MsgNow.frame_id
              idx == MsgNow.frag_info[1].chunk_index
              ev == rx_out'[Len(rx_out')].ev
              had == DictHas(reassembly_buffer, n)
                       /\ idx \in DOMAIN DictGet(reassembly_buffer, n).chunks
          IN /\ Len(tr) >= 5
             /\ tr[Len(tr) - 4] = [op |-> "store", fid |-> n]
             /\ \E acked \in BOOLEAN : FinalizeRun(tr, Len(tr) - 3, n, acked)
             /\ rx_out' # <<>>
             /\ ev.frame_id = n
             /\ idx \in DOMAIN ev.chunks
             /\ ~had => (ev.chunks[idx] = MsgNow.pcd_chunk_bytes)
             /\ ~DictHas(reassembly_buffer', n)
             /\ current_collecting_fid' = n
             /\ last_processed_fid' = n
             /\ IsStale([last |-> last_processed_fid'], MsgNow)]_vars

\* The marker of the frame being collected arrived while a chunk of the
\* frame was missing: the frame was finalized incomplete by that message.
C21_IncompleteFrameFinalizedByMarker ==
  /\ rx_in # <<>>
  /\ IsPcd(rx_in[1])
  /\ rx_in[1].marker
  /\ Len(rx_out) = 1
  /\ rx_out[1].ev.frame_id = rx_in[1].frame_id
  /\ rx_out[1].ev.received_chunks >= 2
  /\ ~rx_out[1].ev.complete
  /\ \A k \in 1..Len(rx_trace) : rx_trace[k].op # "collect"
  /\ current_collecting_fid = rx_in[1].frame_id
  /\ last_processed_fid = rx_in[1].frame_id

\* ---- C22: finalizing a frame_id that has no buffered entry does nothing.
\* The case the loop produces: a chunk of a newer frame n arrives when the
\* frame being collected was already finalized by its marker, and the
\* next-frame trigger finalizes it again.  Nothing is emitted or acked for
\* it, no statement of the finalization runs (the first thing done is
\* current_collecting_fid = n), the buffered entries stay as they are, and
\* last_processed_fid moves only if the new chunk finalizes its own frame.
C22_FinalizeAbsentIsNoOp ==
  [][((rx_in' # <<>>) /\ (r_pc' = "loop")
        /\ (MsgNow.frame_id > last_processed_fid)
        /\ (MsgNow.frame_id > current_collecting_fid)
        /\ (current_collecting_fid # -1)
        /\ ~DictHas(reassembly_buffer, current_collecting_fid))
       => LET tr == rx_trace'
              n == MsgNow.frame_id
              c == current_collecting_fid
          IN /\ \A k \in 1..Len(tr) : tr[k].fid # c
             /\ \A i \in 1..Len(rx_out') : rx_out'[i].ev.frame_id # c
             /\ c \notin AcksNow
             /\ tr[1] = [op |-> "collect", fid |-> n]
             /\ \A f \in KeySet(reassembly_buffer) \ {n} :
                  /\ DictHas(reassembly_buffer', f)
                  /\ DictGet(reassembly_buffer', f) = DictGet(reassembly_buffer, f)
             /\ last_processed_fid' =
                  (IF MsgNow.marker THEN n ELSE last_processed_fid)]_vars

\* A frame was finalized earlier, and the message processed last began a
\* newer frame with nothing to flush: the next-frame trigger finalized a
\* frame_id that was no longer buffered.
C22_NewFrameAfterMarkerFinalization ==
  /\ rx_in # <<>>
  /\ rx_trace # <<>>
  /\ rx_trace[1].op = "collect"
  /\ Len(emitted) > Len(rx_out)
  /\ emitted[Len(emitted) - Len(rx_out)] < rx_in[1].frame_id

IsMalformed(packed) ==
  \/ "undecodable" \in DOMAIN packed
  \/ "frame_id" \notin DOMAIN packed
  \/ (packed.frag_info # <<>>) /\ ("total_chunks" \notin DOMAIN packed.frag_info[1])

\* ---- C23 (as stated): a malformed data message is discarded:
\* reassembly_buffer, current_collecting_fid and last_processed_fid keep their
\* values and the receive loop goes on.
C23_MalformedMessageDiscarded ==
  [][((rx_in' # <<>>) /\ (r_pc = "loop") /\ IsMalformed(rx_in'[1]))
       => /\ reassembly_buffer' = reassembly_buffer
          /\ current_collecting_fid' = current_collecting_fid
          /\ last_processed_fid' = last_processed_fid
          /\ r_pc' = "loop"]_vars

\* The event is a frame whose bytes are not a whole number of rows of width 3.
IsCorrupted(ev) ==
  (ev.type = "pcd") /\ (ev.payload # <<>>) /\ (Len(ev.payload) % 3 # 0)

\* ---- C24: corrupted assembly is not fatal.  When the concatenated bytes of
\* a frame being finalized are not a whole number of rows, the reshape
\* failure is reported (no array comes out), and the frame is finalized like
\* any other: its entry is removed, send_ack is called for it (the ack goes
\* out unless the send raises), last_processed_fid reaches its frame_id, and
\* a receiver that was processing a message is still in its loop.
C24_CorruptedFrameStillFinalized ==
  [][\A i \in 1..Len(rx_out') :
        LET ev == rx_out'[i].ev
            f == ev.frame_id
            acked == rx_out'[i].acked
        IN IsCorrupted(ev)
           => /\ ~ev.reshaped
              /\ ev.final_array = <<>>
              /\ (rx_in' # <<>>) => (r_pc' = "loop")
              /\ \E k \in 1..(Len(rx_trace') - 3) : FinalizeRun(rx_trace', k, f, acked)
              /\ acked => (f \in AcksNow)
              /\ last_processed_fid' >= f
              /\ ~DictHas(reassembly_buffer', f)]_vars

\* The marker of a frame whose payload was cut short arrived: the frame was
\* finalized and acknowledged, and the loop went on.
C24_CutFrameAcked ==
  /\ rx_in # <<>>
  /\ rx_out # <<>>
  /\ IsCorrupted(rx_out[Len(rx_out)].ev)
  /\ rx_out[Len(rx_out)].acked
  /\ rx_out[Len(rx_out)].ev.received_chunks >= 2
  /\ last_processed_fid = rx_out[Len(rx_out)].ev.frame_id
  /\ r_pc = "loop"

\* ---- C25 (as stated): sent_timestamps is accessed under mutual exclusion.
\* While the listener is between its lookup (line 43) and its remove
\* (line 44), no other context modifies the map.
C25_MapAccessMutuallyExclusive ==
  [][((l_pc = "pop") /\ (l_pc' = "pop")) => (sent_timestamps' = sent_timestamps)]_vars

C27_FlushOnShutdown ==
  [][((r_pc = "loop") /\ (r_pc' = "closed")
        /\ (current_collecting_fid # -1)
        /\ DictHas(reassembly_buffer, current_collecting_fid))
       => ~DictHas(reassembly_buffer', current_collecting_fid)]_vars

\* ---- C28: the pending-ack record.  As stated: the record of a frame is
\* inserted when send_frame has finished emitting the frame's chunks, not
\* before they are sent.
RecordInserted(f) ==
  ~DictHas(sent_timestamps, f) /\ DictHas(sent_timestamps', f)

RecordRemoved(f) ==
  DictHas(sent_timestamps, f) /\ ~DictHas(sent_timestamps', f)

C28_RecordInsertedAfterEmission ==
  [][\A f \in 0..(MaxFrames + 1) : RecordInserted(f) => (s_pc = "incr")]_vars

\* C28 as the code has it: send_frame writes frame_id -> time.time() on
\* entry, before anything of the frame is sent; a frame id is used by one
\* call only; a record is removed only by the listener's pop for an ack of
\* that frame, one record per pop, and is never written again; nothing else
\* changes the map, close() included.
C28_RecordInsertedOnEntry ==
  [][/\ ((s_pc = "idle") /\ (s_pc' \notin {"idle", "closed"}))
          => /\ DictHas(sent_timestamps', frame_id)
             /\ DictGet(sent_timestamps', frame_id) = now
             /\ tx_log' = <<>>
             /\ data_chan' = data_chan
     /\ \A f \in 0..(MaxFrames + 1) :
          /\ RecordInserted(f)
               => /\ f = frame_id
                  /\ s_pc = "idle"
                  /\ s_pc' \in {"json", "chunk", "incr"}
          /\ RecordRemoved(f)
               => /\ l_pc = "pop"
                  /\ l_ack = f
                  /\ \A g \in 0..(MaxFrames + 1) :
                       (g # f) => (DictHas(sent_timestamps', g)
                                     <=> DictHas(sent_timestamps, g))
          /\ (DictHas(sent_timestamps, f) /\ DictHas(sent_timestamps', f))
               => (DictGet(sent_timestamps', f) = DictGet(sent_timestamps, f))
     /\ frame_id' \in {frame_id, frame_id + 1}
     /\ ((s_pc # "idle") /\ (s_pc' = "idle")) => (frame_id' = frame_id + 1)]_vars

\* The record of the frame is in the map while its first chunk is still to be
\* sent and nothing of the frame is on the wire.
C28_RecordPresentBeforeFirstChunk ==
  /\ s_pc = "chunk"
  /\ s_call.i = 0
  /\ data_chan = <<>>
  /\ now = 1
  /\ DictHas(sent_timestamps, frame_id)
  /\ DictGet(sent_timestamps, frame_id) = 1

\* ---- C29: for every accepted packet (sequence > last_seq) the receiver
\* makes exactly one feedback datagram, carrying the packet's sequence, its
\* original send timestamp and the values total_received and
\* total_lost_frames have once the packet is counted, and hands it to sendto
\* once: that datagram and no other goes on the wire.  In all, as many
\* datagrams as packets accepted.
C29_OneFeedbackPerAcceptedPacket ==
  /\ [](Len(fb_sent) = total_received)
  /\ [][(d_in' # <<>> /\ PktNow.sequence > last_seq)
          => LET dgram == [len |-> FEEDBACK_SIZE, magic |-> MAGIC,
                           send_time |-> PktNow.send_timestamp,
                           seq |-> PktNow.sequence,
                           received |-> total_received',
                           lost |-> total_lost_frames']
             IN /\ fb_sent' = Append(fb_sent, dgram)
                /\ total_received' = total_received + 1
                /\ fb_chan' \in {fb_chan, fb_chan \cup {dgram}}]_vars

\* Packet 0, then packet 3 sent later: its feedback, the second, reports two
\* received and two lost, and is on the wire.
C29_FeedbackAfterGapOnTheWire ==
  /\ Len(fb_sent) = 2
  /\ fb_sent[2] = [len |-> FEEDBACK_SIZE, magic |-> MAGIC, send_time |-> 1,
                   seq |-> 3, received |-> 2, lost |-> 2]
  /\ fb_sent[2] \in fb_chan

\* ---- C30: the producer's statistics log holds each sequence number at most
\* once: a second feedback datagram for a sequence adds no row.
C30_EachSequenceLoggedOnce ==
  \A i, j \in 1..Len(sender_log_buffer) :
    (i # j) => (sender_log_buffer[i].seq # sender_log_buffer[j].seq)

\* ---- C31: after any message, reassembly_buffer holds at most one entry,
\* its key is current_collecting_fid, and last_processed_fid is at most
\* current_collecting_fid.  The buffer that reaches step 7 of the loop body
\* holds at most one entry too, so the test of the overflow loop,
\* len(reassembly_buffer) > MAX_FRAME_LAG, is false for every MAX_FRAME_LAG
\* of 1 or more and the loop body never runs.
BeforeOverflow(msg) ==
  LET st == RxState(TRUE)
  IN IF IsStale(st, msg) THEN st
     ELSE MarkerTrigger(StoreChunk(NextFrameTrigger(st, msg.frame_id), msg), msg)

C31_BufferHoldsOnlyCollectingFrame ==
  /\ [](/\ Len(reassembly_buffer) <= 1
        /\ \A i \in 1..Len(reassembly_buffer) :
             reassembly_buffer[i].k = current_collecting_fid
        /\ last_processed_fid <= current_collecting_fid)
  /\ [][(rx_in' # <<>>)
          => /\ Len(BeforeOverflow(MsgNow).buf) <= 1
             /\ BeforeOverflow(MsgNow).buf = reassembly_buffer']_vars

\* Frames beyond MAX_FRAME_LAG have come out of order; the message handled
\* last belongs to a frame that was skipped over, and the buffer holds the
\* frame being collected and nothing else.
C31_SkippedChunkWithOneFrameBuffered ==
  /\ rx_in # <<>>
  /\ last_processed_fid < rx_in[1].frame_id
  /\ rx_in[1].frame_id < current_collecting_fid
  /\ current_collecting_fid > MAX_FRAME_LAG
  /\ KeySet(reassembly_buffer) = {current_collecting_fid}
  /\ last_processed_fid >= 1

\* ---- C32: whatever the delivery sequence, the frame ids the receiver
\* emits, in the order it emits them, are strictly increasing, and so are the
\* frame ids of the acks it sends; hence no frame id is emitted or
\* acknowledged twice.
StrictlyIncreasing(s) == \A i, j \in 1..Len(s) : (i < j) => (s[i] < s[j])

C32_EmittedIdsStrictlyIncrease ==
  /\ StrictlyIncreasing(emitted)
  /\ StrictlyIncreasing([i \in 1..Len(ack_chan) |-> ack_chan[i].ack_frame_id])

\* Three frames were emitted, not consecutive ones, two acks or more were
\* sent, and the message handled last was one more chunk of a frame emitted
\* before.
C32_RepeatOfEmittedFrameArrived ==
  /\ Len(emitted) >= 3
  /\ emitted[Len(emitted)] - emitted[1] > Len(emitted)
  /\ Len(ack_chan) >= 2
  /\ rx_in # <<>>
  /\ rx_in[1].frame_id \in Finalized
  /\ rx_in[1].marker

\* ---- C33: a chunk of a frame that was skipped over,
\* last_processed_fid < frame_id < current_collecting_fid, changes nothing,
\* terminal chunk or not: nothing is buffered, emitted or acknowledged in
\* that step.  A frame in that range is not in the buffer, was never emitted
\* or acknowledged, and never will be.
SkippedOver(f) ==
  (last_processed_fid < f) /\ (f < current_collecting_fid)

NeverSeenOut(f) ==
  /\ f \notin Finalized
  /\ \A i \in 1..Len(ack_chan) : ack_chan[i].ack_frame_id # f
  /\ ~DictHas(reassembly_buffer, f)

C33_SkippedFrameChunkDropped ==
  /\ [][((rx_in' # <<>>) /\ SkippedOver(MsgNow.frame_id))
          => /\ reassembly_buffer' = reassembly_buffer
             /\ current_collecting_fid' = current_collecting_fid
             /\ last_processed_fid' = last_processed_fid
             /\ emitted' = emitted
             /\ ack_chan' = ack_chan
             /\ rx_out' = <<>>
             /\ rx_trace' = <<>>]_vars
  /\ \A f \in 0..MaxLagFrame : [](SkippedOver(f) => []NeverSeenOut(f))

\* The terminal chunk of a skipped frame was handled last, while a newer
\* frame sits in the buffer and an older one has been emitted.
C33_TerminalChunkOfSkippedFrame ==
  /\ rx_in # <<>>
  /\ rx_in[1].marker
  /\ SkippedOver(rx_in[1].frame_id)
  /\ last_processed_fid >= 0
  /\ DictHas(reassembly_buffer, current_collecting_fid)
  /\ rx_out = <<>>

\* ---- C34: in the sequence detector, after any packets,
\* total_received + total_lost_frames = last_seq + 1; last_seq and
\* total_lost_frames never decrease; a packet that comes after a higher
\* sequence was accepted changes no counter, so it stays counted as lost.
C34_ReceivedPlusLostIsLastSeqPlusOne ==
  /\ [](total_received + total_lost_frames = last_seq + 1)
  /\ [][/\ last_seq' >= last_seq
        /\ total_lost_frames' >= total_lost_frames
        /\ ((d_in' # <<>>) /\ (PktNow.sequence < last_seq))
             => /\ total_lost_frames' = total_lost_frames
                /\ total_received' = total_received
                /\ last_seq' = last_seq]_vars

\* Packets 0 and 2 were accepted, so 1 was counted lost; then packet 1
\* came, and it is still counted lost.
C34_LatePacketStillCountedLost ==
  /\ d_in # <<>>
  /\ d_in[1].sequence = 1
  /\ last_seq = 2
  /\ total_received = 2
  /\ total_lost_frames = 1
  /\ \A i \in 1..Len(log_buffer) : log_buffer[i].seq # 1

\* ---- C35: end to end, the record of frame f is in sent_timestamps whenever
\* a chunk of f is handed to the socket, and every ack the listener gets is
\* for a frame whose record is there: no ack waiting in the ack channel or
\* being handled is for an unknown frame, and none is ignored.
C35_RecordPresentWhenChunkSent ==
  /\ [](/\ \A i \in 1..Len(ack_chan) :
             DictHas(sent_timestamps, ack_chan[i].ack_frame_id)
        /\ (l_pc \in {"test", "pop"}) => DictHas(sent_timestamps, l_ack)
        /\ l_outcome # "ignored"
        /\ l_pc # "dead")
  /\ [][(Len(tx_log') = Len(tx_log) + 1)
          => /\ DictHas(sent_timestamps, frame_id)
             /\ tx_log'[Len(tx_log')].frame_id = frame_id]_vars

\* The ack of the frame came back and gave its RTT sample before send_frame
\* had returned for that frame.
C35_AckSampledBeforeSendFrameReturned ==
  /\ s_pc = "incr"
  /\ frame_id = 1
  /\ l_ack = frame_id
  /\ l_outcome = "sampled"
  /\ Len(rtt_records_ms) = 2

\* ---- C36, as stated: at every point of every interleaving,
\* len(sent_timestamps) + len(rtt_records_ms) is the number of send_frame
\* calls that have inserted their record; the listener's pop finds its key;
\* no frame id has two RTT samples.
PopFindsKey == (l_pc = "pop") => DictHas(sent_timestamps, l_ack)

OneSamplePerFrame ==
  \A i, j \in 1..Len(rtt_log) : (i # j) => (rtt_log[i].frame_id # rtt_log[j].frame_id)

C36_RecordsPlusSamplesIsCalls ==
  /\ Len(sent_timestamps) + Len(rtt_records_ms) = Len(tx_frames)
  /\ PopFindsKey
  /\ OneSamplePerFrame

\* C36 as the code has it: the listener removes the record at line 44 and
\* appends the sample at line 46, so between the two the sum is one short;
\* counting the sample on its way, the sum is the number of inserting calls
\* at every point.  Keys leave the map only in the listener's pop.
SampleOnItsWay == IF l_pc = "append" THEN 1 ELSE 0

C36_RecordsPlusSamplesPlusPendingIsCalls ==
  /\ [](/\ Len(sent_timestamps) + Len(rtt_records_ms) + SampleOnItsWay
             = Len(tx_frames)
        /\ PopFindsKey
        /\ OneSamplePerFrame)
  /\ [][(\E f \in 0..MaxFrames : RecordRemoved(f))
          => ((l_pc = "pop") /\ (l_pc' = "append"))]_vars

\* Two calls have inserted their records, one sample is recorded, and the
\* listener has popped the other record and not yet appended its sample.
C36_BetweenPopAndAppend ==
  /\ l_pc = "append"
  /\ Len(tx_frames) = 2
  /\ Len(rtt_records_ms) = 1
  /\ sent_timestamps = <<>>

====
